---- MODULE Spec2Model ----
(***************************************************************************)
(* Chambre sonore: the real-time bridge (sensor cells -> debounce -> audio *)
(* + DMX) of V1/src/orbbec/dmx_audio_bridge.py, the SoundEngine of         *)
(* src/sound_engine.py, and the room validation, cell configuration, tick  *)
(* and calibration of GridUI in src/grid_ui.py.                            *)
(***************************************************************************)
EXTENDS Integers, Sequences, FiniteSets, TLC

VARIABLES
    \* ---- DMXOutput (dmx_audio_bridge.py) ----
    buffer,         \* bytearray of DMX_SLOTS entries, index 0..DMX_SLOTS-1
    simulated,      \* DMXOutput._simulated
    send_errors,    \* DMXOutput._send_errors
    \* ---- observation of the DMX transport ----
    has_ola,        \* the OLA client was imported and built at construction
    fail_streak,    \* failed transmissions since the last successful one
    fail_total,     \* failed transmissions since construction
    last_flush,     \* outcome of the last flush: "none", "skipped", "sent", "failed"
    last_write,     \* arguments of the last direct call of set_channels_for_cell
    dmx_call,       \* the last call made on the DMXOutput, "none" before the first,
                    \* "blackout_again" for a blackout that follows a blackout
    \* ---- pygame.mixer of the running process ----
    mixer,          \* [chan: channel -> what it plays, order: busy channels, oldest first]
    \* ---- AudioEngine (dmx_audio_bridge.py) ----
    audio_enabled,  \* AudioEngine.enabled
    audio_sounds,   \* keys k with AudioEngine._sounds[k] a loaded Sound
    audio_active,   \* AudioEngine._active
    audio_channels, \* AudioEngine._channels, NoChan where the key is absent
    note_fx,        \* per key: the last call of note_on / note_off that got past its
                    \* first test: "none" before any, "on" and "off" for the first of
                    \* each kind, "on_again" and "off_again" for the later ones,
                    \* "broken" once two of a kind have followed each other
    \* ---- SoundEngine (sound_engine.py) ----
    se_enabled,     \* SoundEngine.enabled
    se_initialized, \* SoundEngine._initialized
    se_cells,       \* SoundEngine._cells, NoState where the cell id is absent
    se_cache,       \* keys of SoundEngine._sounds_cache
    \* ---- observation of the audio calls ----
    last_call,      \* the last audio call and what the mixer looked like before it
    \* ---- DMXAudioBridge (dmx_audio_bridge.py) ----
    state,          \* DMXAudioBridge.state[r][c]
    on_count,       \* DMXAudioBridge._on_count[r][c]
    off_count,      \* DMXAudioBridge._off_count[r][c]
    cfg_dmx,        \* BridgeConfig.dmx: base_address, channels_per_cell, cell_layout
    \* ---- observation of the bridge's ticks ----
    ticks,          \* ticks run so far
    raw,            \* the cells the sensor reported on the last tick
    present_run,    \* per cell: consecutive ticks, up to the last, that reported it
    absent_run,     \* per cell: consecutive ticks, up to the last, that did not
    run_start,      \* per cell: its state when its current run began
    audio_log,      \* note-on / note-off calls of the last tick, in the order issued
    dmx_writes,     \* set_channels_for_cell calls of the last tick
    buf_changed,    \* the last tick changed the DMX buffer
    prev_state,     \* state before the last tick
    had_run,        \* some cell has been reported ACTIVATE_N ticks in a row
    ever_on,        \* a note-on has been issued
    all_single,     \* every tick so far reported at most one cell
    alternating,    \* every tick so far reported one cell, not that of the tick before
    \* ---- DMXAudioBridge.run and shutdown ----
    pc,             \* where run is: "test" (the while test, after the sleep), "read",
                    \* "update", "flush", "sd_release", "sd_blackout", "sd_sensor",
                    \* "sd_audio", "done"
    stop_set,       \* DMXAudioBridge._stop.is_set()
    sensor_on,      \* the sensor pipeline has not been stopped
    read_outcome,   \* how the last sensor read ended: "frame", "timeout", "error"
    \* ---- observation of run ----
    sd_log,         \* the steps of shutdown performed, in order
    stop_phase,     \* pc when stop() was first called, "" before
    flushes_after_stop, \* ticks completed after stop() was first called
    \* ---- GridUI (src/grid_ui.py), lengths in millimetres ----
    ui_alive,       \* the application has not been ended by an escaped exception
    ui_raised,      \* the exception that escaped a slot, "" while none has
    ui_room,        \* room_width_m, room_depth_m, grid_rows, grid_cols
    ui_cells,       \* CellConfig.cells, NoEntry where the cell id is absent
    ui_clipboard,   \* GridUI._cell_clipboard, NoEntry for None
    ui_clip_alias,  \* the cell id whose CellConfigEntry object the clipboard is,
                    \* NoKey when the clipboard is None or an object of its own
    ui_last,        \* GridUI._last_active_cell, NoKey for None
    ui_last_ground, \* GridUI._last_ground_xy, NoGround for None
    cal_active,     \* GridUI._calibration_active
    cal_phase,      \* GridUI._calibration_phase
    cal_wait,       \* GridUI._calibration_wait
    cal_countdown,  \* GridUI._calibration_countdown
    ui_offset,      \* <<mapper3d.offset_x, mapper3d.offset_y>>
    ui_saved,       \* what _save_system_state last wrote, NoSaved before any save
    \* ---- observation of GridUI ----
    ui_obs,         \* the last call of a GridUI slot and what it computed
    \* ---- validate_room_and_matrix on its own ----
    val_in,         \* the arguments of the first call
    val_out,        \* the result of the first call, NoResult before it
    val_again       \* the result of the call on that result, NoResult before it

dmxVars == <<buffer, simulated, send_errors, has_ola, fail_streak, fail_total, last_flush, last_write, dmx_call>>
audioVars == <<audio_enabled, audio_sounds, audio_active, audio_channels, note_fx>>
seVars == <<se_enabled, se_initialized, se_cells, se_cache>>
bridgeVars == <<state, on_count, off_count, cfg_dmx>>
runVars == <<pc, stop_set, sensor_on, read_outcome, sd_log, stop_phase, flushes_after_stop>>
tickHist == <<present_run, absent_run, run_start, audio_log,
              dmx_writes, buf_changed, prev_state, had_run, ever_on, all_single,
              alternating>>
tickObs == <<ticks, raw, tickHist, runVars>>
valVars == <<val_in, val_out, val_again>>
uiVars == <<ui_alive, ui_raised, ui_room, ui_cells, ui_last, ui_last_ground,
            cal_active, cal_phase, cal_wait, cal_countdown, ui_offset, ui_obs,
            ui_saved, ui_clipboard, ui_clip_alias, valVars>>

vars == <<buffer, simulated, send_errors, has_ola, fail_streak, fail_total, last_flush, last_write, dmx_call,
          mixer, audio_enabled, audio_sounds, audio_active, audio_channels, note_fx,
          se_enabled, se_initialized, se_cells, se_cache, last_call,
          state, on_count, off_count, cfg_dmx,
          ticks, raw, present_run, absent_run, run_start, audio_log,
          dmx_writes, buf_changed, prev_state, had_run, ever_on, all_single,
          alternating, pc, stop_set, sensor_on, read_outcome, sd_log, stop_phase, flushes_after_stop,
          ui_alive, ui_raised, ui_room, ui_cells, ui_last, ui_last_ground,
          cal_active, cal_phase, cal_wait, cal_countdown, ui_offset, ui_obs,
          ui_saved, ui_clipboard, ui_clip_alias, val_in, val_out, val_again>>

----------------------------------------------------------------------------
(* Program constants *)

DMX_SLOTS == 512
SEND_ERRORS_LIMIT == 5

ACTIVATE_N == 3
DEACTIVATE_N == 6
COUNT_MAX == 255

(* Bounds of the model. The bridge's matrix is MATRIX_ROWS x MATRIX_COLS = 6 x 6
   in the source; the model runs the same code on a smaller matrix. *)

MATRIX_ROWS == 2
MATRIX_COLS == 2
NumChannels == 2
NumKeys == 3
NumDetectable == 2
NumRunDetectable == 1
UiMaxRows == 3
UiMaxCols == 4
MaxRunTicks == 4
MaxTicks == 10

----------------------------------------------------------------------------
(* Helpers *)

Max(a, b) == IF a >= b THEN a ELSE b
Min(a, b) == IF a <= b THEN a ELSE b

----------------------------------------------------------------------------
(* DMXOutput *)

\* bytearray([0] * DMX_SLOTS)
ZeroBuffer == [i \in 0..(DMX_SLOTS - 1) |-> 0]

\* ClampByte without its upper clamp
ClampByteNoUpper(v) == Max(0, v)

\* max(0, min(255, int(v)))
ClampByte(v) == Max(0, Min(255, v))

\* the loop body of set_channels_for_cell, for i = k - 1 (enumerate is 0-based)
RECURSIVE WriteFrom(_, _, _, _)
WriteFrom(buf, start, values, k) ==
    IF k > Len(values) THEN buf
    ELSE LET idx == start + (k - 1)
             nxt == IF 0 <= idx /\ idx < DMX_SLOTS
                    THEN [buf EXCEPT ![idx] = ClampByte(values[k])]
                    ELSE buf
         IN  WriteFrom(nxt, start, values, k + 1)

\* set_channels_for_cell with the address taken as the first index
SetChannelsFromAddress(buf, address, values) ==
    WriteFrom(buf, Max(0, address), values, 1)

\* DMXOutput.set_channels_for_cell(address, values), as a function of the buffer
set_channels_for_cell(buf, address, values) ==
    WriteFrom(buf, Max(0, address - 1), values, 1)

\* FlushResult with ">=" for ">" in the test of _send_errors
FlushResultAtLimit(sim, errs, ok) ==
    IF sim THEN [simulated |-> sim, send_errors |-> errs, last_flush |-> "skipped"]
    ELSE IF ok THEN [simulated |-> sim, send_errors |-> errs, last_flush |-> "sent"]
    ELSE [simulated |-> (errs + 1 >= SEND_ERRORS_LIMIT), send_errors |-> errs + 1,
          last_flush |-> "failed"]

\* DMXOutput.flush(): the result on _simulated and _send_errors, and what was
\* done; ok is the outcome of SendDmx / RunOnce when they are attempted
FlushResult(sim, errs, ok) ==
    IF sim THEN [simulated |-> sim, send_errors |-> errs, last_flush |-> "skipped"]
    ELSE IF ok THEN [simulated |-> sim, send_errors |-> errs, last_flush |-> "sent"]
    ELSE [simulated |-> (errs + 1 > SEND_ERRORS_LIMIT), send_errors |-> errs + 1,
          last_flush |-> "failed"]

\* inputs of the DMX operations
AddrInputs == {-3, 1, DMX_SLOTS, DMX_SLOTS + 1}
ValLists == {<<>>, <<256>>, <<-1, 200>>, <<200, 256, -1>>}

NoWrite == [address |-> 0, values |-> <<>>]

DmxSetChannels ==
    \E address \in AddrInputs, values \in ValLists :
        /\ buffer' = set_channels_for_cell(buffer, address, values)
        /\ last_write' = [address |-> address, values |-> values]
        /\ dmx_call' = "set_channels_for_cell"
        /\ UNCHANGED <<simulated, send_errors, has_ola, fail_streak, fail_total, last_flush>>
        /\ UNCHANGED <<mixer, audioVars, seVars, last_call, bridgeVars, uiVars, tickObs>>

DmxApplyFlush(ok) ==
    LET res == FlushResult(simulated, send_errors, ok) IN
    /\ simulated' = res.simulated
    /\ send_errors' = res.send_errors
    /\ last_flush' = res.last_flush
    /\ fail_streak' = IF res.last_flush = "failed" THEN fail_streak + 1
                      ELSE IF res.last_flush = "sent" THEN 0 ELSE fail_streak
    /\ fail_total' = IF res.last_flush = "failed" THEN fail_total + 1 ELSE fail_total

DmxFlush ==
    \E ok \in BOOLEAN :
        /\ DmxApplyFlush(ok)
        /\ dmx_call' = "flush"
        /\ UNCHANGED <<buffer, has_ola, last_write>>
        /\ UNCHANGED <<mixer, audioVars, seVars, last_call, bridgeVars, uiVars, tickObs>>

DmxBlackout ==
    \E ok \in BOOLEAN :
        /\ buffer' = [i \in 0..(DMX_SLOTS - 1) |-> 0]
        /\ DmxApplyFlush(ok)
        /\ dmx_call' = IF dmx_call \in {"blackout", "blackout_again"}
                       THEN "blackout_again" ELSE "blackout"
        /\ UNCHANGED <<has_ola, last_write>>
        /\ UNCHANGED <<mixer, audioVars, seVars, last_call, bridgeVars, uiVars, tickObs>>

\* a call of reset() on the DMXOutput: the class defines __init__,
\* set_channels_for_cell, flush and blackout only, so that the attribute lookup
\* raises AttributeError and the engine is left as it was
DmxReset ==
    /\ dmx_call' = "reset"
    /\ UNCHANGED <<buffer, simulated, send_errors, has_ola, fail_streak, fail_total,
                   last_flush, last_write>>
    /\ UNCHANGED <<mixer, audioVars, seVars, last_call, bridgeVars, uiVars, tickObs>>

InitDmx ==
    /\ buffer = ZeroBuffer
    /\ has_ola \in BOOLEAN
    /\ simulated = ~has_ola
    /\ send_errors = 0
    /\ fail_streak = 0
    /\ fail_total = 0
    /\ last_flush = "none"
    /\ last_write = NoWrite
    /\ dmx_call = "none"

----------------------------------------------------------------------------
(* Cells and keys *)

\* rc_key(r, c): f"{r},{c}"
rc_key(r, c) == ToString(r) \o "," \o ToString(c)

\* the cell visited at step i (0-based) of "for r in range(ROWS): for c in range(COLS)"
CellAt(i) == <<i \div MATRIX_COLS, i % MATRIX_COLS>>
NumCells == MATRIX_ROWS * MATRIX_COLS
Cells == {CellAt(i) : i \in 0..(NumCells - 1)}
KeyOf(cell) == rc_key(cell[1], cell[2])
AllKeys == {KeyOf(cell) : cell \in Cells}

\* the keys the audio calls of the model are made with
CallKeys == {rc_key(0, i) : i \in 0..(NumKeys - 1)}

\* the cell ids f"{r},{c}" of the grids of GridUI in the model
UiKeys == {rc_key(r, c) : r \in 0..(UiMaxRows - 1), c \in 0..(UiMaxCols - 1)}

\* the cell ids SoundEngine._cells is indexed with
SeKeys == CallKeys \cup UiKeys

----------------------------------------------------------------------------
(* pygame.mixer: NumChannels channels; each is idle or plays one sound *)

Channels == 0..(NumChannels - 1)
NoChan == 0 - 1
NoKey == ""

IdleChannel == [by |-> NoKey, snd |-> "", loops |-> 0, fading |-> FALSE, vol |-> <<0, 0>>]

MixerInit == [chan |-> [ch \in Channels |-> IdleChannel], order |-> <<>>]

\* Channel.get_busy()
get_busy(m, ch) == m.chan[ch].snd # ""

SeqWithout(s, x) == SelectSeq(s, LAMBDA y : y # x)

\* pygame.mixer.find_channel(force): the first idle channel; with none idle, the
\* channel that has played longest when force is set, else None
find_channel(m, force) ==
    IF \E ch \in Channels : ~get_busy(m, ch)
    THEN CHOOSE ch \in Channels :
            /\ ~get_busy(m, ch)
            /\ \A o \in Channels : ~get_busy(m, o) => ch <= o
    ELSE IF force /\ Len(m.order) > 0 THEN m.order[1]
    ELSE NoChan

\* Channel.play(sound, loops): whatever the channel played is cut off
ChannelPlay(m, ch, by, snd, loops, vol) ==
    [chan |-> [m.chan EXCEPT ![ch] = [by |-> by, snd |-> snd, loops |-> loops,
                                      fading |-> FALSE, vol |-> vol]],
     order |-> Append(SeqWithout(m.order, ch), ch)]

\* Channel.stop()
ChannelStop(m, ch) ==
    [chan |-> [m.chan EXCEPT ![ch] = IdleChannel], order |-> SeqWithout(m.order, ch)]

\* Channel.fadeout(ms): a busy channel starts fading and stops when the fade ends
ChannelFadeout(m, ch) ==
    IF get_busy(m, ch) THEN [m EXCEPT !.chan[ch].fading = TRUE] ELSE m

\* Channel.set_volume(left, right)
ChannelSetVolume(m, ch, vol) == [m EXCEPT !.chan[ch].vol = vol]

\* pygame.mixer.stop()
MixerStop == MixerInit

\* what is remembered of an audio call: the operation, its key, whether it went
\* for a channel (fresh), the channel it started a sound on (NoChan if none),
\* whether every channel was busy before the call and which had played longest,
\* whose sound the taken channel was playing, and whether the call left every
\* other channel as it was
CallRec(op, key, before, after, fresh, took) ==
    [op |-> op, key |-> key, fresh |-> fresh, took |-> took,
     full |-> \A ch \in Channels : get_busy(before, ch),
     oldest |-> IF Len(before.order) > 0 THEN before.order[1] ELSE NoChan,
     victim |-> IF took = NoChan THEN NoKey ELSE before.chan[took].by,
     victim_fading |-> IF took = NoChan THEN FALSE ELSE before.chan[took].fading,
     kept |-> \A ch \in Channels \ {took} : after.chan[ch] = before.chan[ch]]

\* the mixer thread: a sound played once (loops = 0) reaches its end, or a fade-out
\* completes, and the channel becomes idle
MixerChannelEnds ==
    \E ch \in Channels :
        /\ get_busy(mixer, ch)
        /\ mixer.chan[ch].loops = 0 \/ mixer.chan[ch].fading
        /\ mixer' = ChannelStop(mixer, ch)
        /\ last_call' = CallRec("ends", NoKey, mixer, mixer', FALSE, NoChan)
        /\ UNCHANGED <<dmxVars, audioVars, seVars, bridgeVars, uiVars, tickObs>>

----------------------------------------------------------------------------
(* AudioEngine of the bridge *)

\* the engine as a record, so that one tick can thread it through its calls
AudioRec(active, channels, m) == [active |-> active, channels |-> channels, mixer |-> m]

\* note_on without the test of line 342
NoteOnNeverSkips(a, key) == FALSE

\* line 342: "if key in self._active: return"
note_on_skips(a, key) == key \in a.active

\* note_off without the test of line 359
NoteOffNeverSkips(a, key) == FALSE

\* line 359: "if key not in self._active: return"
note_off_skips(a, key) == key \notin a.active

\* AudioEngine.note_on(key)
note_on(a, key) ==
    IF note_on_skips(a, key) THEN a
    ELSE LET a1 == [a EXCEPT !.active = a.active \cup {key}] IN
         IF ~audio_enabled THEN a1
         ELSE IF key \notin audio_sounds THEN a1
         ELSE LET found == find_channel(a.mixer, FALSE)
                  ch == IF found = NoChan THEN 0 ELSE found
              IN  [a1 EXCEPT !.mixer = ChannelPlay(a.mixer, ch, key, key, 0, <<100, 100>>),
                             !.channels[key] = ch]

\* AudioEngine.note_off(key)
note_off(a, key) ==
    IF note_off_skips(a, key) THEN a
    ELSE LET a1 == [a EXCEPT !.active = a.active \ {key}] IN
         IF ~audio_enabled THEN a1
         ELSE IF a.channels[key] = NoChan THEN a1
         ELSE [a1 EXCEPT !.mixer = ChannelFadeout(a.mixer, a.channels[key])]

\* note_fx after a call of note_on (kind "on") or note_off (kind "off") on the
\* engine a: a call that returns at its first test leaves it as it is
NoteFx(fx, kind, a, key) ==
    IF kind = "on"
    THEN IF note_on_skips(a, key) THEN fx
         ELSE [fx EXCEPT ![key] = IF @ = "none" THEN "on"
                                  ELSE IF @ \in {"off", "off_again"} THEN "on_again"
                                  ELSE "broken"]
    ELSE IF note_off_skips(a, key) THEN fx
         ELSE [fx EXCEPT ![key] = IF @ = "on" THEN "off"
                                  ELSE IF @ = "on_again" THEN "off_again"
                                  ELSE "broken"]

AudioNow == AudioRec(audio_active, audio_channels, mixer)

AudioApply(a) ==
    /\ audio_active' = a.active
    /\ audio_channels' = a.channels
    /\ mixer' = a.mixer

AudioNoteOn ==
    \E key \in CallKeys :
        /\ AudioApply(note_on(AudioNow, key))
        /\ note_fx' = NoteFx(note_fx, "on", AudioNow, key)
        /\ last_call' = CallRec("note_on", key, mixer, mixer',
                                 key \notin audio_active /\ audio_enabled
                                     /\ key \in audio_sounds,
                                 IF mixer' = mixer THEN NoChan ELSE audio_channels'[key])
        /\ UNCHANGED <<dmxVars, audio_enabled, audio_sounds, seVars, bridgeVars, uiVars, tickObs>>

AudioNoteOff ==
    \E key \in CallKeys :
        /\ AudioApply(note_off(AudioNow, key))
        /\ note_fx' = NoteFx(note_fx, "off", AudioNow, key)
        /\ last_call' = CallRec("note_off", key, mixer, mixer', FALSE, NoChan)
        /\ UNCHANGED <<dmxVars, audio_enabled, audio_sounds, seVars, bridgeVars, uiVars, tickObs>>

InitAudio ==
    /\ audio_enabled \in BOOLEAN
    /\ audio_sounds \in {AllKeys \cup CallKeys, (AllKeys \cup CallKeys) \ {rc_key(0, 0)}}
    /\ audio_active = {}
    /\ audio_channels = [k \in AllKeys \cup CallKeys |-> NoChan]
    /\ note_fx = [k \in AllKeys \cup CallKeys |-> "none"]

----------------------------------------------------------------------------
(* SoundEngine *)

\* state is None: no CellSoundState for the cell id
NoState == [wav_path |-> "", channel |-> NoChan]

\* inputs of the SoundEngine calls; volumes and pans in hundredths
WavInputs == {"", "a.wav", "b.wav", "missing.wav"}
LoadableWavs == {"a.wav", "b.wav"}
VolInputs == {50, 150}
PanInputs == {0}

\* max(0.0, min(1.0, x)), in hundredths
ClampUnit(x) == Max(0, Min(100, x))

\* (left * vol, right * vol) with left = 1.0 - pan, right = pan, in hundredths
Gains(volume, pan) ==
    LET vol == ClampUnit(volume)
        p == ClampUnit(pan)
    IN  <<((100 - p) * vol) \div 100, (p * vol) \div 100>>

\* PlayChannel that takes a channel on every call, busy or not
PlayChannelAlways(cells, m, cell_id, wav_path, st, vol) ==
    LET ch == find_channel(m, TRUE)
        m1 == ChannelPlay(m, ch, cell_id, st.wav_path, 0 - 1, <<100, 100>>)
    IN  [cells |-> [cells EXCEPT ![cell_id] = [st EXCEPT !.channel = ch]],
         mixer |-> ChannelSetVolume(m1, ch, vol),
         fresh |-> TRUE,
         took |-> ch]

\* PlayChannel with find_channel() for find_channel(True)
PlayChannelNoForce(cells, m, cell_id, wav_path, st, vol) ==
    LET ch0 == st.channel
        fresh == ch0 = NoChan \/ ~get_busy(m, ch0)
        ch == IF fresh THEN find_channel(m, FALSE) ELSE ch0
        m1 == IF fresh /\ ch # NoChan
              THEN ChannelPlay(m, ch, cell_id, st.wav_path, 0 - 1, <<100, 100>>)
              ELSE m
    IN  [cells |-> [cells EXCEPT ![cell_id] = [st EXCEPT !.channel = ch]],
         mixer |-> IF ch = NoChan THEN m1 ELSE ChannelSetVolume(m1, ch, vol),
         fresh |-> fresh,
         took |-> IF fresh THEN ch ELSE NoChan]

\* PlayChannel that plays the sound again on a channel that is busy
PlayChannelRestart(cells, m, cell_id, wav_path, st, vol) ==
    LET ch0 == st.channel
        fresh == ch0 = NoChan \/ ~get_busy(m, ch0)
        ch == IF fresh THEN find_channel(m, TRUE) ELSE ch0
        m1 == IF ch # NoChan
              THEN ChannelPlay(m, ch, cell_id, st.wav_path, 0 - 1, <<100, 100>>)
              ELSE m
    IN  [cells |-> [cells EXCEPT ![cell_id] = [st EXCEPT !.channel = ch]],
         mixer |-> IF ch = NoChan THEN m1 ELSE ChannelSetVolume(m1, ch, vol),
         fresh |-> fresh,
         took |-> IF fresh THEN ch ELSE NoChan]

\* the channel step of play_for_cell (lines 153-166): a cell whose channel is
\* missing or idle takes find_channel(True) and starts its sound; otherwise the
\* channel is left playing; then the gains are set on the channel
PlayChannel(cells, m, cell_id, wav_path, st, vol) ==
    LET ch0 == st.channel
        fresh == ch0 = NoChan \/ ~get_busy(m, ch0)
        ch == IF fresh THEN find_channel(m, TRUE) ELSE ch0
        st1 == [st EXCEPT !.channel = ch]
        m1 == IF fresh /\ ch # NoChan
              THEN ChannelPlay(m, ch, cell_id, st.wav_path, 0 - 1, <<100, 100>>)
              ELSE m
    IN  [cells |-> [cells EXCEPT ![cell_id] = st1],
         mixer |-> IF ch = NoChan THEN m1 ELSE ChannelSetVolume(m1, ch, vol),
         fresh |-> fresh,
         took |-> IF fresh THEN ch ELSE NoChan]

\* SoundEngine.play_for_cell(cell_id, wav_path, volume, pan); init_ok is the
\* outcome of mixer.init() when _ensure_init attempts it
play_for_cell(cell_id, wav_path, volume, pan, init_ok) ==
    /\ se_initialized => init_ok = se_enabled
    /\ se_initialized' = (se_initialized \/ wav_path # "")
    /\ se_enabled' = IF se_initialized \/ wav_path = "" THEN se_enabled ELSE init_ok
    /\ IF wav_path = "" \/ ~se_enabled'
       THEN UNCHANGED <<se_cells, se_cache, mixer, last_call>>
       ELSE IF wav_path \notin se_cache /\ wav_path \notin LoadableWavs
       THEN UNCHANGED <<se_cells, se_cache, mixer, last_call>>
       ELSE LET st == IF se_cells[cell_id] = NoState
                      THEN [wav_path |-> wav_path, channel |-> NoChan]
                      ELSE [se_cells[cell_id] EXCEPT !.wav_path = wav_path]
                res == PlayChannel(se_cells, mixer, cell_id, wav_path, st,
                                   Gains(volume, pan))
            IN  /\ se_cache' = se_cache \cup {wav_path}
                /\ se_cells' = res.cells
                /\ mixer' = res.mixer
                /\ last_call' = CallRec("play_for_cell", cell_id, mixer, res.mixer,
                                         res.fresh, res.took)

\* a call of play_for_cell from outside GridUI
SePlayForCell ==
    \E cell_id \in CallKeys, wav_path \in WavInputs, volume \in VolInputs,
       pan \in PanInputs, init_ok \in BOOLEAN :
        /\ play_for_cell(cell_id, wav_path, volume, pan, init_ok)
        /\ UNCHANGED <<dmxVars, audioVars, bridgeVars, uiVars, tickObs>>

\* SoundEngine.stop_cell(cell_id)
SeStopCell ==
    \E cell_id \in CallKeys :
        /\ mixer' = IF se_cells[cell_id] # NoState /\ se_cells[cell_id].channel # NoChan
                    THEN ChannelStop(mixer, se_cells[cell_id].channel)
                    ELSE mixer
        /\ last_call' = CallRec("stop_cell", cell_id, mixer, mixer', FALSE, NoChan)
        /\ UNCHANGED <<dmxVars, audioVars, seVars, bridgeVars, uiVars, tickObs>>

\* SoundEngine.stop_all()
SeStopAll ==
    /\ mixer' = IF ~se_initialized \/ ~se_enabled THEN mixer ELSE MixerStop
    /\ last_call' = CallRec("stop_all", NoKey, mixer, mixer', FALSE, NoChan)
    /\ UNCHANGED <<dmxVars, audioVars, seVars, bridgeVars, uiVars, tickObs>>

InitSound ==
    /\ se_enabled = FALSE
    /\ se_initialized = FALSE
    /\ se_cells = [k \in SeKeys |-> NoState]
    /\ se_cache = {}

----------------------------------------------------------------------------
(* DMXAudioBridge *)

\* DMXMapping.address_of(r, c)
address_of(cfg, r, c) ==
    LET idx == IF cfg.cell_layout = "row-major" THEN r * MATRIX_COLS + c
               ELSE c * MATRIX_ROWS + r
    IN  cfg.base_address + idx * cfg.channels_per_cell

\* the values _apply_cell_to_dmx writes for a cell
CellValues(active) == IF active THEN <<255, 50, 0>> ELSE <<0, 0, 0>>

\* the cells with state[r][c] set
ActiveCells(st) == {cell \in Cells : st[cell]}

\* The double loop of _update_from_active_cells visits the cells in row-major
\* order. What it does to state, _on_count and _off_count of a cell reads that
\* cell's entries alone, so these are given per cell; the audio calls and the DMX
\* writes act on shared engines and are applied in the order of the loop.

\* on_after without the reset of line 495
OnAfterNoReset(cell, active_set) ==
    IF cell \in active_set THEN Min(on_count[cell] + 1, COUNT_MAX) ELSE on_count[cell]

\* off_after without the reset of line 487
OffAfterNoReset(cell, active_set) ==
    IF cell \in active_set THEN off_count[cell] ELSE Min(off_count[cell] + 1, COUNT_MAX)

\* on_after with a counter of one byte that wraps in place of min(..., 255)
OnAfterWraps(cell, active_set) ==
    IF cell \in active_set THEN (on_count[cell] + 1) % (COUNT_MAX + 1) ELSE 0

\* lines 486-501 for one cell: the counters and the state after the iteration
on_after(cell, active_set) ==
    IF cell \in active_set THEN Min(on_count[cell] + 1, COUNT_MAX) ELSE 0

off_after(cell, active_set) ==
    IF cell \in active_set THEN 0 ELSE Min(off_count[cell] + 1, COUNT_MAX)

\* line 491 with ">" for ">="
TurnsOnLate(cell, active_set) ==
    cell \in active_set /\ ~state[cell] /\ on_after(cell, active_set) > ACTIVATE_N

\* line 491 without "not was"
TurnsOnAgain(cell, active_set) ==
    cell \in active_set /\ on_after(cell, active_set) >= ACTIVATE_N

\* line 491: "if not was and self._on_count[r][c] >= self._ACTIVATE_N"
turns_on(cell, active_set) ==
    cell \in active_set /\ ~state[cell] /\ on_after(cell, active_set) >= ACTIVATE_N

\* line 499 with the threshold of line 491
TurnsOffEarly(cell, active_set) ==
    cell \notin active_set /\ state[cell] /\ off_after(cell, active_set) >= ACTIVATE_N

\* line 499: "if was and self._off_count[r][c] >= self._DEACTIVATE_N"
turns_off(cell, active_set) ==
    cell \notin active_set /\ state[cell] /\ off_after(cell, active_set) >= DEACTIVATE_N

\* a state matrix in which a cell that turns on turns every other cell off
StateAfterExclusive(cell, active_set) ==
    IF turns_on(cell, active_set) THEN TRUE
    ELSE IF turns_off(cell, active_set)
            \/ \E other \in Cells \ {cell} : turns_on(other, active_set) THEN FALSE
    ELSE state[cell]

state_after(cell, active_set) ==
    IF turns_on(cell, active_set) THEN TRUE
    ELSE IF turns_off(cell, active_set) THEN FALSE
    ELSE state[cell]

\* the indices, in loop order, of the cells whose state the loop changes
RECURSIVE Flips(_, _)
Flips(active_set, i) ==
    IF i >= NumCells THEN <<>>
    ELSE IF turns_on(CellAt(i), active_set) \/ turns_off(CellAt(i), active_set)
         THEN <<i>> \o Flips(active_set, i + 1)
         ELSE Flips(active_set, i + 1)

\* the state matrix when the loop reaches the cell of index i: the cells before
\* it have been updated, the others not yet
StateAt(active_set, i) ==
    [cell \in Cells |-> IF cell[1] * MATRIX_COLS + cell[2] <= i
                        THEN state_after(cell, active_set) ELSE state[cell]]

\* _apply_cell_to_audio for the cells whose state changes, in loop order; b
\* carries the AudioEngine, the log of the calls and note_fx
RECURSIVE ApplyAudio(_, _, _, _)
ApplyAudio(b, active_set, flips, k) ==
    IF k > Len(flips) THEN b
    ELSE LET cell == CellAt(flips[k])
             on == turns_on(cell, active_set)
             a1 == IF on THEN note_on(b.audio, KeyOf(cell)) ELSE note_off(b.audio, KeyOf(cell))
             entry == [kind |-> IF on THEN "on" ELSE "off", cell |-> cell,
                       others |-> ActiveCells(StateAt(active_set, flips[k])) \ {cell}]
         IN  ApplyAudio([audio |-> a1, log |-> Append(b.log, entry),
                         fx |-> NoteFx(b.fx, entry.kind, b.audio, KeyOf(cell))],
                        active_set, flips, k + 1)

\* line 504 with the raw detection of the tick for the filtered state
AppliedRaw(cell, active_set) == cell \in active_set

\* line 504: the state handed to _apply_cell_to_dmx, self.state[r][c] as the
\* iteration has left it
applied_state(cell, active_set) == state_after(cell, active_set)

\* _apply_cell_to_dmx(r, c, self.state[r][c]) for every cell from index i on, in
\* loop order: the buffer after the writes and the number of cells written
RECURSIVE ApplyDmx(_, _, _)
ApplyDmx(buf, i, active_set) ==
    IF i >= NumCells THEN [buffer |-> buf, writes |-> i]
    ELSE ApplyDmx(set_channels_for_cell(
                      buf, address_of(cfg_dmx, CellAt(i)[1], CellAt(i)[2]),
                      CellValues(applied_state(CellAt(i), active_set))),
                  i + 1, active_set)

\* _update_from_active_cells(active_cells)
update_from_active_cells(active_cells) ==
    LET a == ApplyAudio([audio |-> AudioNow, log |-> <<>>, fx |-> note_fx], active_cells,
                        Flips(active_cells, 0), 1)
        d == ApplyDmx(buffer, 0, active_cells)
    IN  a @@ d @@ [state |-> [cell \in Cells |-> state_after(cell, active_cells)],
                   on_count |-> [cell \in Cells |-> on_after(cell, active_cells)],
                   off_count |-> [cell \in Cells |-> off_after(cell, active_cells)]]

\* the cells run goes on with after the read: read_active_cells returns [] when
\* wait_for_frames gave no frame, and run sets cells to [] when the read raised
CellsOfRead(outcome, seen) == IF outcome = "frame" THEN seen ELSE {}

\* the cells the sensor reports in the model
Detectable == {CellAt(i) : i \in 0..(NumDetectable - 1)}

\* one pass of the loop of DMXAudioBridge.run: read_active_cells (an empty list
\* when no frame came within the timeout or when the read raised),
\* _update_from_active_cells, dmx.flush
Tick ==
    \E outcome \in {"frame", "timeout", "error"}, seen \in SUBSET Detectable,
       ok \in BOOLEAN :
     \E cells \in {CellsOfRead(outcome, seen)} :
      \E b \in {update_from_active_cells(cells)} :
        LET flipped(cell) == ticks = 0 \/ ((cell \in cells) # (cell \in raw))
        IN  /\ ticks < MaxTicks
            /\ read_outcome' = outcome
            /\ simulated => ok
            /\ state' = b.state
            /\ on_count' = b.on_count
            /\ off_count' = b.off_count
            /\ AudioApply(b.audio)
            /\ note_fx' = b.fx
            /\ buffer' = b.buffer
            /\ DmxApplyFlush(ok)
            /\ ticks' = ticks + 1
            /\ raw' = cells
            /\ present_run' = [cell \in Cells |->
                                 IF cell \in cells THEN present_run[cell] + 1 ELSE 0]
            /\ absent_run' = [cell \in Cells |->
                                IF cell \in cells THEN 0 ELSE absent_run[cell] + 1]
            /\ run_start' = [cell \in Cells |->
                               IF flipped(cell) THEN state[cell] ELSE run_start[cell]]
            /\ audio_log' = b.log
            /\ dmx_writes' = b.writes
            /\ buf_changed' = (b.buffer # buffer)
            /\ prev_state' = state
            /\ had_run' = (had_run \/ \E cell \in cells : present_run[cell] + 1 >= ACTIVATE_N)
            /\ ever_on' = (ever_on \/ \E k \in 1..Len(b.log) : b.log[k].kind = "on")
            /\ all_single' = (all_single /\ Cardinality(cells) <= 1)
            /\ alternating' = (alternating /\ Cardinality(cells) = 1 /\ cells # raw)
            /\ dmx_call' = "flush"
            /\ UNCHANGED <<pc, stop_set, sensor_on, sd_log, stop_phase, flushes_after_stop>>
            /\ UNCHANGED <<has_ola, last_write, audio_enabled, audio_sounds, seVars,
                           last_call, cfg_dmx, uiVars>>

\* the DMX mapping of the model: the default of BridgeConfig.load_or_create
CfgInputs == {[base_address |-> 1, channels_per_cell |-> 3, cell_layout |-> "row-major"]}

\* mappings a configuration file can hold: the default, the other layout, four
\* channels per cell, a base address that puts the third cell's block across the
\* end of the universe and the fourth past it, and two channels per cell
MappingInputs ==
    CfgInputs \cup
    {[base_address |-> 1, channels_per_cell |-> 3, cell_layout |-> "column-major"],
     [base_address |-> 5, channels_per_cell |-> 4, cell_layout |-> "row-major"],
     [base_address |-> 505, channels_per_cell |-> 3, cell_layout |-> "row-major"],
     [base_address |-> 1, channels_per_cell |-> 2, cell_layout |-> "row-major"]}

InitMapBridge ==
    /\ state = [cell \in Cells |-> FALSE]
    /\ on_count = [cell \in Cells |-> 0]
    /\ off_count = [cell \in Cells |-> 0]
    /\ cfg_dmx \in MappingInputs

InitBridge ==
    /\ state = [cell \in Cells |-> FALSE]
    /\ on_count = [cell \in Cells |-> 0]
    /\ off_count = [cell \in Cells |-> 0]
    /\ cfg_dmx \in CfgInputs

InitTickObs ==
    /\ ticks = 0
    /\ raw = {}
    /\ present_run = [cell \in Cells |-> 0]
    /\ absent_run = [cell \in Cells |-> 0]
    /\ run_start = [cell \in Cells |-> FALSE]
    /\ audio_log = <<>>
    /\ dmx_writes = 0
    /\ buf_changed = FALSE
    /\ prev_state = [cell \in Cells |-> FALSE]
    /\ had_run = FALSE
    /\ ever_on = FALSE
    /\ all_single = TRUE
    /\ alternating = TRUE
    /\ pc = "test"
    /\ stop_set = FALSE
    /\ sensor_on = TRUE
    /\ read_outcome = "frame"
    /\ sd_log = <<>>
    /\ stop_phase = ""
    /\ flushes_after_stop = 0

----------------------------------------------------------------------------
(* DMXAudioBridge.run, stop and shutdown *)

\* the while test of run with a loop that never looks at _stop
AfterTestIgnoresStop(stop) == "read"

\* "while not self._stop.is_set()": where run goes from the test
AfterTest(stop) == IF stop THEN "sd_release" ELSE "read"

\* the cells the sensor reports under run
RunDetectable == {CellAt(i) : i \in 0..(NumRunDetectable - 1)}

\* The same pass of the loop with no bound on the number of passes, for the
\* behaviour of the counters once they have reached COUNT_MAX. The counts of the
\* passes (ticks, present_run, absent_run) and what is derived from them are
\* left as they are; the program's state is updated as in Tick. A read that
\* gives a frame reports every cell, so that the counters of all the cells move
\* together.
LongTick ==
    \E outcome \in {"frame", "timeout", "error"}, ok \in BOOLEAN :
     \E cells \in {CellsOfRead(outcome, Cells)} :
      \E b \in {update_from_active_cells(cells)} :
        /\ read_outcome' = outcome
        /\ simulated => ok
        /\ state' = b.state
        /\ on_count' = b.on_count
        /\ off_count' = b.off_count
        /\ AudioApply(b.audio)
        /\ note_fx' = b.fx
        /\ buffer' = b.buffer
        /\ DmxApplyFlush(ok)
        /\ raw' = cells
        /\ audio_log' = b.log
        /\ dmx_writes' = b.writes
        /\ buf_changed' = (b.buffer # buffer)
        /\ prev_state' = state
        /\ dmx_call' = "flush"
        /\ UNCHANGED <<ticks, present_run, absent_run, run_start, had_run, ever_on,
                       all_single, alternating>>
        /\ UNCHANGED <<pc, stop_set, sensor_on, sd_log, stop_phase, flushes_after_stop>>
        /\ UNCHANGED <<has_ola, last_write, audio_enabled, audio_sounds, seVars,
                       last_call, cfg_dmx, uiVars>>

\* the while test; the finally clause sends an exit of the loop to shutdown
RunLoopTest ==
    /\ pc = "test"
    /\ stop_set \/ ticks < MaxRunTicks
    /\ pc' = AfterTest(stop_set)
    /\ ticks' = IF pc' = "read" THEN ticks + 1 ELSE ticks
    /\ UNCHANGED <<stop_set, sensor_on, read_outcome, sd_log, stop_phase,
                   flushes_after_stop, raw, tickHist>>
    /\ UNCHANGED <<dmxVars, mixer, audioVars, seVars, last_call, bridgeVars, uiVars>>

\* step 1 of the loop body: read_active_cells inside try / except. A read
\* without a frame returns [], an exception is caught and cells is set to []
RunRead ==
    \E outcome \in {"frame", "timeout", "error"}, seen \in SUBSET RunDetectable :
        /\ pc = "read"
        /\ raw' = CellsOfRead(outcome, seen)
        /\ read_outcome' = outcome
        /\ pc' = "update"
        /\ UNCHANGED <<stop_set, sensor_on, sd_log, stop_phase, flushes_after_stop,
                       ticks, tickHist>>
        /\ UNCHANGED <<dmxVars, mixer, audioVars, seVars, last_call, bridgeVars, uiVars>>

\* step 2: _update_from_active_cells(cells)
RunUpdate ==
    /\ pc = "update"
    /\ \E b \in {update_from_active_cells(raw)} :
        /\ state' = b.state
        /\ on_count' = b.on_count
        /\ off_count' = b.off_count
        /\ AudioApply(b.audio)
        /\ note_fx' = b.fx
        /\ buffer' = b.buffer
        /\ audio_log' = b.log
        /\ prev_state' = state
        /\ pc' = "flush"
        /\ UNCHANGED <<stop_set, sensor_on, read_outcome, sd_log, stop_phase,
                       flushes_after_stop, ticks, raw>>
        /\ UNCHANGED <<present_run, absent_run, run_start, dmx_writes, buf_changed,
                       had_run, ever_on, all_single, alternating>>
        /\ UNCHANGED <<simulated, send_errors, has_ola, fail_streak, fail_total,
                       last_flush, last_write, dmx_call>>
        /\ UNCHANGED <<audio_enabled, audio_sounds, seVars, last_call, cfg_dmx, uiVars>>

\* step 3: self.dmx.flush(), then the grid print, the heartbeat and the sleep
RunFlush ==
    \E ok \in BOOLEAN :
        /\ pc = "flush"
        /\ simulated => ok
        /\ DmxApplyFlush(ok)
        /\ dmx_call' = "flush"
        /\ pc' = "test"
        /\ flushes_after_stop' = IF stop_set THEN flushes_after_stop + 1
                                 ELSE flushes_after_stop
        /\ UNCHANGED <<stop_set, sensor_on, read_outcome, sd_log, stop_phase,
                       ticks, raw, tickHist>>
        /\ UNCHANGED <<buffer, has_ola, last_write>>
        /\ UNCHANGED <<mixer, audioVars, seVars, last_call, bridgeVars, uiVars>>

\* DMXAudioBridge.stop(), called by the signal handler at any point of run
RunStop ==
    /\ pc # "done"
    /\ ~stop_set
    /\ stop_set' = TRUE
    /\ stop_phase' = pc
    /\ UNCHANGED <<pc, sensor_on, read_outcome, sd_log, flushes_after_stop,
                   ticks, raw, tickHist>>
    /\ UNCHANGED <<dmxVars, mixer, audioVars, seVars, last_call, bridgeVars, uiVars>>

\* the first loop of shutdown: _apply_cell_to_audio(r, c, False) for every cell
RECURSIVE ReleaseAll(_, _)
ReleaseAll(a, i) ==
    IF i >= NumCells THEN a
    ELSE ReleaseAll(note_off(a, KeyOf(CellAt(i))), i + 1)

\* note_fx after that loop, from the cell of index i on
RECURSIVE ReleaseFx(_, _, _)
ReleaseFx(a, fx, i) ==
    IF i >= NumCells THEN fx
    ELSE ReleaseFx(note_off(a, KeyOf(CellAt(i))),
                   NoteFx(fx, "off", a, KeyOf(CellAt(i))), i + 1)

RunShutdownRelease ==
    /\ pc = "sd_release"
    /\ AudioApply(ReleaseAll(AudioNow, 0))
    /\ note_fx' = ReleaseFx(AudioNow, note_fx, 0)
    /\ sd_log' = Append(sd_log, "release")
    /\ pc' = "sd_blackout"
    /\ UNCHANGED <<stop_set, sensor_on, read_outcome, stop_phase, flushes_after_stop,
                   ticks, raw, tickHist>>
    /\ UNCHANGED <<dmxVars, audio_enabled, audio_sounds, seVars, last_call, bridgeVars, uiVars>>

\* self.dmx.blackout()
RunShutdownBlackout ==
    \E ok \in BOOLEAN :
        /\ pc = "sd_blackout"
        /\ simulated => ok
        /\ buffer' = [i \in 0..(DMX_SLOTS - 1) |-> 0]
        /\ DmxApplyFlush(ok)
        /\ dmx_call' = "blackout"
        /\ sd_log' = Append(sd_log, "blackout")
        /\ pc' = "sd_sensor"
        /\ UNCHANGED <<stop_set, sensor_on, read_outcome, stop_phase,
                       flushes_after_stop, ticks, raw, tickHist>>
        /\ UNCHANGED <<has_ola, last_write>>
        /\ UNCHANGED <<mixer, audioVars, seVars, last_call, bridgeVars, uiVars>>

\* self.sensor.shutdown(): the pipeline is stopped, exceptions are swallowed
RunShutdownSensor ==
    /\ pc = "sd_sensor"
    /\ sensor_on' = FALSE
    /\ sd_log' = Append(sd_log, "sensor")
    /\ pc' = "sd_audio"
    /\ UNCHANGED <<stop_set, read_outcome, stop_phase, flushes_after_stop,
                   ticks, raw, tickHist>>
    /\ UNCHANGED <<dmxVars, mixer, audioVars, seVars, last_call, bridgeVars, uiVars>>

\* self.audio.shutdown(): pygame.mixer.stop() and pygame.quit() when enabled
RunShutdownAudio ==
    /\ pc = "sd_audio"
    /\ mixer' = IF audio_enabled THEN MixerStop ELSE mixer
    /\ sd_log' = Append(sd_log, "audio")
    /\ pc' = "done"
    /\ UNCHANGED <<stop_set, sensor_on, read_outcome, stop_phase, flushes_after_stop,
                   ticks, raw, tickHist>>
    /\ UNCHANGED <<dmxVars, audioVars, seVars, last_call, bridgeVars, uiVars>>

\* a sound that ends while run is going
RunChannelEnds == pc # "done" /\ MixerChannelEnds

\* the steps of the thread that executes run
RunStep ==
    \/ RunLoopTest
    \/ RunRead
    \/ RunUpdate
    \/ RunFlush
    \/ RunShutdownRelease
    \/ RunShutdownBlackout
    \/ RunShutdownSensor
    \/ RunShutdownAudio

\* a DMXOutput built without OLA (HAS_OLA false): in simulation mode from the start
NoDmx ==
    /\ buffer = ZeroBuffer
    /\ has_ola = FALSE
    /\ simulated = TRUE
    /\ send_errors = 0
    /\ fail_streak = 0
    /\ fail_total = 0
    /\ last_flush = "none"
    /\ last_write = NoWrite
    /\ dmx_call = "none"

\* an AudioEngine built with enabled false, no sound loaded
NoAudio ==
    /\ audio_enabled = FALSE
    /\ audio_sounds = {}
    /\ audio_active = {}
    /\ audio_channels = [k \in AllKeys \cup CallKeys |-> NoChan]
    /\ note_fx = [k \in AllKeys \cup CallKeys |-> "none"]

InitMixer ==
    /\ mixer = MixerInit
    /\ last_call = CallRec("none", NoKey, MixerInit, MixerInit, FALSE, NoChan)

----------------------------------------------------------------------------
(* GridUI: room and matrix, cell configuration, the 50 ms tick, calibration.
   Lengths are in millimetres: 1000 is the 1.0 m of the source. *)

\* validate_room_and_matrix without the test of the columns
ValidateNoColsTest(width_m, depth_m, cols_input, rows_input) ==
    LET width == IF width_m < 1000 THEN 1000 ELSE width_m
        m1 == IF width_m < 1000 THEN <<"width">> ELSE <<>>
        depth == IF depth_m < 1000 THEN 1000 ELSE depth_m
        m2 == IF depth_m < 1000 THEN Append(m1, "depth") ELSE m1
        rows_max == depth \div 1000
        rows == IF rows_input > rows_max THEN rows_max ELSE rows_input
        m4 == IF rows_input > rows_max THEN Append(m2, "rows") ELSE m2
    IN  [width |-> width, depth |-> depth, cols |-> cols_input, rows |-> rows,
         message |-> m4]

\* validate_room_and_matrix with ">=" for ">" in the test of the rows
ValidateRowsAtMax(width_m, depth_m, cols_input, rows_input) ==
    LET width == IF width_m < 1000 THEN 1000 ELSE width_m
        m1 == IF width_m < 1000 THEN <<"width">> ELSE <<>>
        depth == IF depth_m < 1000 THEN 1000 ELSE depth_m
        m2 == IF depth_m < 1000 THEN Append(m1, "depth") ELSE m1
        cols_max == width \div 1000
        rows_max == depth \div 1000
        cols == IF cols_input > cols_max THEN cols_max ELSE cols_input
        m3 == IF cols_input > cols_max THEN <<"cols">> ELSE m2
        rows == IF rows_input >= rows_max THEN rows_max ELSE rows_input
        m4 == IF rows_input >= rows_max THEN Append(m3, "rows") ELSE m3
    IN  [width |-> width, depth |-> depth, cols |-> cols, rows |-> rows,
         message |-> m4]

\* validate_room_and_matrix(width_m, depth_m, cols_input, rows_input); the message
\* is the sequence of the sentences it is made of, named by what they are about
validate_room_and_matrix(width_m, depth_m, cols_input, rows_input) ==
    LET width == IF width_m < 1000 THEN 1000 ELSE width_m
        m1 == IF width_m < 1000 THEN <<"width">> ELSE <<>>
        depth == IF depth_m < 1000 THEN 1000 ELSE depth_m
        m2 == IF depth_m < 1000 THEN Append(m1, "depth") ELSE m1
        cols_max == width \div 1000
        rows_max == depth \div 1000
        cols == IF cols_input > cols_max THEN cols_max ELSE cols_input
        m3 == IF cols_input > cols_max THEN <<"cols">> ELSE m2
        rows == IF rows_input > rows_max THEN rows_max ELSE rows_input
        m4 == IF rows_input > rows_max THEN Append(m3, "rows") ELSE m3
    IN  [width |-> width, depth |-> depth, cols |-> cols, rows |-> rows,
         message |-> m4]

\* the arguments validate_room_and_matrix is called with in the model
ValidateInputs ==
    [width : {500, 999, 1000, 1999, 2500, 4328}, depth : {900, 1000, 3235},
     cols : {0 - 1, 0, 1, 2, 5}, rows : {0, 1, 3, 4}]

NoResult == [width |-> 0, depth |-> 0, cols |-> 0, rows |-> 0, message |-> <<"none">>]

\* result = validate_room_and_matrix(width, depth, cols, rows)
Validate ==
    /\ val_out = NoResult
    /\ val_out' = validate_room_and_matrix(val_in.width, val_in.depth, val_in.cols,
                                           val_in.rows)
    /\ UNCHANGED <<val_in, val_again>>
    /\ UNCHANGED <<ui_alive, ui_raised, ui_room, ui_cells, ui_clipboard, ui_clip_alias,
                   ui_last, ui_last_ground,
                   cal_active, cal_phase, cal_wait, cal_countdown, ui_offset, ui_obs,
                   ui_saved>>
    /\ UNCHANGED <<dmxVars, mixer, audioVars, seVars, last_call, bridgeVars, tickObs>>

\* validate_room_and_matrix applied to the values of its own result
ValidateAgain ==
    /\ val_out # NoResult
    /\ val_again = NoResult
    /\ val_again' = validate_room_and_matrix(val_out.width, val_out.depth, val_out.cols,
                                             val_out.rows)
    /\ UNCHANGED <<val_in, val_out>>
    /\ UNCHANGED <<ui_alive, ui_raised, ui_room, ui_cells, ui_clipboard, ui_clip_alias,
                   ui_last, ui_last_ground,
                   cal_active, cal_phase, cal_wait, cal_countdown, ui_offset, ui_obs,
                   ui_saved>>
    /\ UNCHANGED <<dmxVars, mixer, audioVars, seVars, last_call, bridgeVars, tickObs>>

\* validate_room_and_matrix has not been called
NoValidate ==
    /\ val_in = <<>>
    /\ val_out = NoResult
    /\ val_again = NoResult

\* validate_room_and_matrix is about to be called with arguments of the model
InitValidate ==
    /\ val_in \in ValidateInputs
    /\ val_out = NoResult
    /\ val_again = NoResult

\* default_state of _load_system_state, used when config/system_state.json is absent
DefaultRoom == [width |-> 4328, depth |-> 3235, rows |-> 3, cols |-> 4]

\* what config/system_state.json may hold at startup: nothing, or a stored room
StoredStates == {DefaultRoom, [width |-> 2500, depth |-> 3235, rows |-> 3, cols |-> 4]}

\* the values of the spin boxes of GridConfigDialog when OK is pressed
DialogInputs == [width : {3500, 4330}, depth : {3240}, rows : {2, 4}, cols : {2, 4}]

\* the cell ids of a rows x cols grid
GridKeys(rows, cols) == {rc_key(r, c) : r \in 0..(rows - 1), c \in 0..(cols - 1)}

\* the row and the column a cell id f"{r},{c}" is made of
RowOf(k) == CHOOSE r \in 0..(UiMaxRows - 1) : \E c \in 0..(UiMaxCols - 1) : rc_key(r, c) = k
ColOf(k) == CHOOSE c \in 0..(UiMaxCols - 1) : \E r \in 0..(UiMaxRows - 1) : rc_key(r, c) = k

\* DMXConfig and its defaults
DMXConfig(universe, address, channels, color) ==
    [universe |-> universe, address |-> address, channels |-> channels, color |-> color]
DefaultDmx == DMXConfig(1, 1, 3, <<255, 255, 255>>)

\* CellConfigEntry; volume in hundredths. NoEntry stands for a missing cell id.
CellConfigEntry(cell_id, name, x_min, x_max, y_min, y_max, wav, volume, dmx, active) ==
    [cell_id |-> cell_id, name |-> name, x_min |-> x_min, x_max |-> x_max,
     y_min |-> y_min, y_max |-> y_max, wav |-> wav, volume |-> volume, dmx |-> dmx,
     active |-> active]
NoEntry == CellConfigEntry("none", "none", 0, 0, 0, 0, "none", 0, DMXConfig(0, 0, 0, <<>>), FALSE)

\* the entry rebuild_grid and _build_default_grid make for a cell id that has
\* no entry to keep: x_min = c * cell_w, x_max = (c + 1) * cell_w, y_min =
\* r * cell_h, y_max = (r + 1) * cell_h, and the defaults of the dataclass
DefaultEntry(k, room) ==
    CellConfigEntry(k, "cell_" \o k,
                    (ColOf(k) * room.width) \div room.cols,
                    ((ColOf(k) + 1) * room.width) \div room.cols,
                    (RowOf(k) * room.depth) \div room.rows,
                    ((RowOf(k) + 1) * room.depth) \div room.rows,
                    "", 100, DefaultDmx, TRUE)

\* CellConfig._build_default_grid
build_default_grid(room) ==
    [k \in UiKeys |-> IF k \in GridKeys(room.rows, room.cols) THEN DefaultEntry(k, room)
                      ELSE NoEntry]

\* a cells.json written for the room, then given a sound on every cell but the
\* first and "active": false on the second
LoadedGrid(room) ==
    [k \in UiKeys |-> IF k \notin GridKeys(room.rows, room.cols) THEN NoEntry
                      ELSE IF k = rc_key(0, 0) THEN DefaultEntry(k, room)
                      ELSE IF k = rc_key(0, 1)
                      THEN [DefaultEntry(k, room) EXCEPT !.wav = "a.wav", !.active = FALSE]
                      ELSE [DefaultEntry(k, room) EXCEPT !.wav = "a.wav"]]

\* rebuild_grid with the branch of keep_existing taken for no cell
RebuildAllDefault(cells, room) == build_default_grid(room)

\* rebuild_grid with the old entry kept whole, its bounds included
RebuildKeepsBounds(cells, room) ==
    [k \in UiKeys |-> IF k \notin GridKeys(room.rows, room.cols) THEN NoEntry
                      ELSE IF cells[k] # NoEntry THEN cells[k]
                      ELSE DefaultEntry(k, room)]

\* CellConfig.rebuild_grid(room_width_m, room_depth_m, rows, cols, keep_existing=True)
rebuild_grid(cells, room) ==
    [k \in UiKeys |->
        IF room.cols <= 0 \/ room.rows <= 0 \/ k \notin GridKeys(room.rows, room.cols)
        THEN NoEntry
        ELSE LET fresh == DefaultEntry(k, room)
                 old == cells[k]
             IN  IF old # NoEntry
                 THEN CellConfigEntry(k, old.name, fresh.x_min, fresh.x_max, fresh.y_min,
                                      fresh.y_max, old.wav, old.volume, old.dmx,
                                      old.active)
                 ELSE fresh]

\* CellConfigEntry.clone(): active is not passed on and takes its default
clone(e) ==
    CellConfigEntry(e.cell_id, e.name, e.x_min, e.x_max, e.y_min, e.y_max, e.wav,
                    e.volume,
                    DMXConfig(e.dmx.universe, e.dmx.address, e.dmx.channels, e.dmx.color),
                    TRUE)

\* clone that hands back the entry itself
CloneIsSelf(k) == k

\* clone returns a CellConfigEntry built by the call (line 49): the object the
\* clipboard holds is no cell's entry
clone_alias(k) == NoKey

\* The cell editor and apply_from assign the fields of the entry object of cell
\* k in place. The clipboard after that, cells being the registry after it: the
\* same object when the clipboard is that entry, untouched otherwise.
SeenByClipboard(k, cells) ==
    IF ui_clip_alias = k /\ cells[k] # NoEntry THEN cells[k] ELSE ui_clipboard

\* CellConfigEntry.apply_from(other)
apply_from(e, other) ==
    [e EXCEPT !.name = other.name, !.wav = other.wav, !.volume = other.volume,
              !.dmx = DMXConfig(other.dmx.universe, other.dmx.address,
                                other.dmx.channels, other.dmx.color)]

\* the cells and values the cell editor is used with in the model
EditInputs ==
    [cell_id : {rc_key(0, 0)}, wav : {"", "a.wav"}, address : {1, 512},
     channels : {3, 16}]

\* A depth frame is a set of groups of pixels: k pixels of column px whose
\* depth is d millimetres. The groups of a frame differ in (px, d).
DepthInputs ==
    { {[px |-> 0, d |-> 0, k |-> 50]},
      {[px |-> 0, d |-> 3200, k |-> 5], [px |-> 300, d |-> 3200, k |-> 45]},
      {[px |-> 0, d |-> 3200, k |-> 6], [px |-> 20, d |-> 3200, k |-> 6]},
      {[px |-> 0, d |-> 3200, k |-> 10], [px |-> 20, d |-> 3200, k |-> 40]},
      {[px |-> 0, d |-> 4000, k |-> 50]},
      {[px |-> 0, d |-> 3094, k |-> 30], [px |-> 10, d |-> 3094, k |-> 20]},
      {[px |-> 0, d |-> 3200, k |-> 50]} }

\* ZoneMapper3D.compute_point_cloud(depth_data): the pixels deeper than 0.2 m,
\* Xc = (xs - cx) * d / fx with cx = 318.2 and fx = 366.1, Zc = d; the rotation
\* is the identity
compute_point_cloud(depth) ==
    { [px |-> p.px, xc |-> ((10 * p.px - 3182) * p.d) \div 3661, zc |-> p.d, k |-> p.k] :
          p \in {q \in depth : q.d > 200} }

\* the camera's distance to the side wall, as in the default system state
CamWallDist == 40

\* ZoneMapper3D.project_to_ground(cloud): x_abs = cam_wall_dist_m + Xc + 6.15,
\* y_abs = Zc, kept under mask_phys
project_to_ground(cloud) ==
    { q \in { [px |-> p.px, x |-> CamWallDist + p.xc + 6150, y |-> p.zc, k |-> p.k] :
                  p \in cloud } :
          /\ q.x > 0 /\ q.x < 3600
          /\ q.y > 700 /\ q.y < 4500 }

RECURSIVE NumPoints(_)
NumPoints(points) ==
    IF points = {} THEN 0
    ELSE LET p == CHOOSE q \in points : TRUE
         IN  p.k + NumPoints(points \ {p})

SetMin(S) == CHOOSE v \in S : \A w \in S : v <= w
SetMax(S) == CHOOSE v \in S : \A w \in S : v >= w

\* one coordinate of the points, each value with the number of points it is of
ColumnX(points) == { [px |-> p.px, v |-> p.x, k |-> p.k] : p \in points }
ColumnY(points) == { [px |-> p.px, v |-> p.y, k |-> p.k] : p \in points }

\* the value at place i (from 0) of a column in ascending order
ValueAt(column, i) ==
    SetMin({ q.v : q \in { w \in column :
                 NumPoints({ r \in column : r.v <= w.v }) > i } })

\* numpy.median of a column (to the millimetre)
Median(column) ==
    LET n == NumPoints(column)
    IN  (ValueAt(column, (n - 1) \div 2) + ValueAt(column, n \div 2)) \div 2

\* A ground projection is summed up by its number of points, the extent of its
\* x and y and its medians. NoGround is None.
NoGround == [n |-> 0 - 1, min_x |-> 0, max_x |-> 0, min_y |-> 0, max_y |-> 0,
             x |-> 0, y |-> 0]
GroundOf(points) ==
    IF points = {}
    THEN [n |-> 0, min_x |-> 0, max_x |-> 0, min_y |-> 0, max_y |-> 0, x |-> 0, y |-> 0]
    ELSE [n |-> NumPoints(points),
          min_x |-> SetMin({p.x : p \in points}), max_x |-> SetMax({p.x : p \in points}),
          min_y |-> SetMin({p.y : p \in points}), max_y |-> SetMax({p.y : p \in points}),
          x |-> Median(ColumnX(points)), y |-> Median(ColumnY(points))]

\* the ground projections of the depth frames
GroundInputs ==
    { GroundOf(project_to_ground(compute_point_cloud(depth))) : depth \in DepthInputs }

NoPos == <<>>
NoCell == <<>>

\* ZoneMapper3D.detect_person_position(ground_xy); ground_xy.size is 2 n
detect_person_position(g) ==
    IF g = NoGround \/ 2 * g.n < 20 THEN NoPos ELSE <<g.x, g.y>>

\* GridUI._map_position_to_cell_local(pos_xy, ground_xy)
map_position_to_cell_local(pos, g, room) ==
    IF pos = NoPos THEN NoCell
    ELSE IF ~(0 <= pos[2] /\ pos[2] < room.depth) THEN NoCell
    ELSE LET r == Max(0, Min(room.rows - 1, (pos[2] * room.rows) \div room.depth))
             span == g.max_x - g.min_x
             num == pos[1] - g.min_x
             c0 == IF g = NoGround \/ g.n = 0 THEN room.cols \div 2
                   ELSE IF span < 50 THEN room.cols \div 2
                   ELSE IF num <= 0 THEN 0
                   ELSE IF 1000 * num >= 999 * span THEN (999 * room.cols) \div 1000
                   ELSE (num * room.cols) \div span
         IN  <<r, Max(0, Min(room.cols - 1, c0))>>

\* what a slot of GridUI was last called for, and what it came to
UiObs(op, polled, pos, cell) ==
    [op |-> op, polled |-> polled, pos |-> pos, cell |-> cell, frame |-> NoGround]

\* a tick that polled a frame: frame is the ground projection of the depth data
\* of that frame, NoGround when there is no depth data or the projection is empty
TickObs(pos, cell, has_depth, g) ==
    [op |-> "tick", polled |-> TRUE, pos |-> pos, cell |-> cell,
     frame |-> IF has_depth /\ g.n > 0 THEN g ELSE NoGround]
NoObs == UiObs("none", FALSE, NoPos, NoCell)

\* the engine state a tick may change, as one value
UiEngine == <<ui_last, ui_last_ground, cal_active, cal_phase, cal_wait,
              cal_countdown, ui_offset, se_cells, mixer>>

\* GridUI.handle_zone_activity_3d(pos, (r, c)): SoundEngine has no release_cell,
\* so the call made when another cell was active raises AttributeError, which
\* leaves the slot
handle_zone_activity_3d(cell, init_ok) ==
    LET cell_id == rc_key(cell[1], cell[2])
        cell_info == IF cell_id \in UiKeys THEN ui_cells[cell_id] ELSE NoEntry
    IN  IF cell_info = NoEntry \/ ui_last = cell_id
        THEN UNCHANGED <<ui_alive, ui_raised, ui_last, seVars, mixer, last_call>>
        ELSE IF ui_last # NoKey
        THEN /\ ui_alive' = FALSE
             /\ ui_raised' = "AttributeError"
             /\ UNCHANGED <<ui_last, seVars, mixer, last_call>>
        ELSE /\ play_for_cell(cell_id, cell_info.wav, 100, 0, init_ok)
             /\ ui_last' = cell_id
             /\ UNCHANGED <<ui_alive, ui_raised>>

\* a tick without a cell that also forgets the remembered cell
NoDetectionForgets ==
    /\ ui_last' = NoKey
    /\ UNCHANGED <<ui_alive, ui_raised, seVars, mixer, last_call>>

\* lines 651-653 and 662-664: "self._clear_grid(); return" when there is no
\* position or no cell; _clear_grid redraws the buttons
no_detection == UNCHANGED <<ui_alive, ui_raised, ui_last, seVars, mixer, last_call>>

\* _save_system_state writes the camera, the room and the grid, and no
\* calibration offset. The record keeps the room and grid written, the
\* operation that saved, and, as an observation that is not in the file, the
\* offsets of the mapper at that time.
NoSaved == [room |-> <<>>, by |-> "none", offsets |-> <<>>]
save_system_state(room, by, offsets) == [room |-> room, by |-> by, offsets |-> offsets]

\* lines 581-588: offset = target - position, target = (cell_w * 1.5, cell_h * 1.0)
CalibrationOffset(pos, room) ==
    << (3 * room.width) \div (2 * room.cols) - pos[1],
       room.depth \div room.rows - pos[2] >>

\* Computing that takes the medians of any retained cloud, without the test of
\* line 575
ComputingAnyCloud(ground, room, offset) ==
    IF ground = NoGround THEN [commit |-> FALSE, offset |-> offset]
    ELSE [commit |-> TRUE, offset |-> CalibrationOffset(<<ground.x, ground.y>>, room)]

\* lines 562-598, when the countdown has run out: without a retained ground
\* projection, or without a position in it, nothing is committed
Computing(ground, room, offset) ==
    LET pos == detect_person_position(ground)
    IN  IF ground = NoGround \/ pos = NoPos
        THEN [commit |-> FALSE, offset |-> offset]
        ELSE [commit |-> TRUE, offset |-> CalibrationOffset(pos, room)]

\* the calibration block of update_frame_and_zones, phase 1 (lines 531-544)
CalibrationWait ==
    /\ cal_wait' = cal_wait - 1
    /\ IF cal_wait - 1 <= 0
       THEN cal_phase' = 2 /\ cal_countdown' = 200
       ELSE UNCHANGED <<cal_phase, cal_countdown>>
    /\ UNCHANGED <<cal_active, ui_offset, ui_saved>>

\* the calibration block of update_frame_and_zones, phase 2 (lines 549-602)
CalibrationCount ==
    /\ cal_countdown' = cal_countdown - 1
    /\ IF cal_countdown - 1 > 0
       THEN UNCHANGED <<cal_active, ui_offset, ui_saved>>
       ELSE /\ cal_active' = FALSE
            /\ LET res == Computing(ui_last_ground, ui_room, ui_offset)
               IN  /\ ui_offset' = res.offset
                   /\ ui_saved' = IF res.commit
                                  THEN save_system_state(ui_room, "calibration",
                                                         res.offset)
                                  ELSE ui_saved
    /\ UNCHANGED <<cal_phase, cal_wait>>

\* GridUI.update_frame_and_zones, the slot of the 50 ms timer
UiTick ==
    \E ok \in BOOLEAN, has_depth \in BOOLEAN, g \in GroundInputs, init_ok \in BOOLEAN :
        /\ ui_alive
        /\ IF ~ok
           THEN /\ ui_obs' = UiObs("tick", FALSE, NoPos, NoCell)
                /\ UNCHANGED <<ui_alive, ui_raised, ui_last, ui_last_ground, cal_active,
                               cal_phase, cal_wait, cal_countdown, ui_offset, ui_saved,
                               seVars, mixer, last_call>>
           ELSE IF cal_active /\ cal_phase = 1
           THEN /\ CalibrationWait
                /\ ui_obs' = TickObs(NoPos, NoCell, has_depth, g)
                /\ UNCHANGED <<ui_alive, ui_raised, ui_last, ui_last_ground,
                               seVars, mixer, last_call>>
           ELSE IF cal_active /\ cal_phase = 2
           THEN /\ CalibrationCount
                /\ ui_obs' = TickObs(NoPos, NoCell, has_depth, g)
                /\ UNCHANGED <<ui_alive, ui_raised, ui_last, ui_last_ground,
                               seVars, mixer, last_call>>
           ELSE IF ~has_depth
           THEN /\ ui_obs' = TickObs(NoPos, NoCell, FALSE, g)
                /\ UNCHANGED <<ui_alive, ui_raised, ui_last, ui_last_ground, cal_active,
                               cal_phase, cal_wait, cal_countdown, ui_offset, ui_saved,
                               seVars, mixer, last_call>>
           ELSE LET pos == detect_person_position(g)
                    cell == map_position_to_cell_local(pos, g, ui_room)
                IN  /\ ui_last_ground' = IF g.n > 0 THEN g ELSE ui_last_ground
                    /\ ui_obs' = TickObs(pos, cell, TRUE, g)
                    /\ IF cell = NoCell
                       THEN no_detection
                       ELSE handle_zone_activity_3d(cell, init_ok)
                    /\ UNCHANGED <<cal_active, cal_phase, cal_wait, cal_countdown,
                                   ui_offset, ui_saved>>
        /\ UNCHANGED <<ui_room, ui_cells, ui_clipboard, ui_clip_alias, valVars>>
        /\ UNCHANGED <<dmxVars, audioVars, bridgeVars, tickObs>>

\* GridUI._start_calibration, the slot of the calibration button
UiStartCalibration ==
    /\ ui_alive
    /\ IF ui_last_ground = NoGround
       THEN UNCHANGED <<cal_active, cal_countdown>>
       ELSE cal_active' = TRUE /\ cal_countdown' = 150
    /\ ui_obs' = UiObs("start_calibration", FALSE, NoPos, NoCell)
    /\ UNCHANGED <<ui_alive, ui_raised, ui_room, ui_cells, ui_clipboard, ui_clip_alias,
                   ui_last, ui_last_ground,
                   cal_phase, cal_wait, ui_offset, ui_saved, valVars>>
    /\ UNCHANGED <<dmxVars, mixer, audioVars, seVars, last_call, bridgeVars, tickObs>>

\* GridUI.open_config_dialog with OK pressed in GridConfigDialog: accept validates
\* the spin values and closes the dialog only when nothing was corrected; a
\* dialog left open changes nothing of GridUI
UiConfigure ==
    \E spin \in DialogInputs :
        LET result == validate_room_and_matrix(spin.width, spin.depth, spin.cols,
                                               spin.rows)
        IN  /\ ui_alive
            /\ IF result.message # <<>>
               THEN UNCHANGED <<ui_room, ui_cells, ui_saved>>
               ELSE /\ ui_room' = [width |-> result.width, depth |-> result.depth,
                                   rows |-> result.rows, cols |-> result.cols]
                    /\ ui_cells' = rebuild_grid(ui_cells, ui_room')
                    /\ ui_saved' = save_system_state(ui_room', "config", ui_offset)
            /\ ui_obs' = UiObs(IF result.message = <<>> /\ ui_room' = ui_room
                                THEN "config_same" ELSE "config",
                                result.message = <<>>, NoPos, NoCell)
            /\ ui_clip_alias' = IF result.message = <<>> THEN NoKey ELSE ui_clip_alias
            /\ UNCHANGED <<ui_alive, ui_raised, ui_clipboard, ui_last, ui_last_ground,
                           cal_active, cal_phase, cal_wait, cal_countdown, ui_offset,
                           valVars>>
            /\ UNCHANGED <<dmxVars, mixer, audioVars, seVars, last_call, bridgeVars,
                           tickObs>>

\* GridUI._edit_cell_from_grid with OK pressed in CellEditorDialog
UiEditCell ==
    \E edit \in EditInputs :
        /\ ui_alive
        /\ IF ui_cells[edit.cell_id] = NoEntry
           THEN UNCHANGED ui_cells
           ELSE ui_cells' = [ui_cells EXCEPT
                                ![edit.cell_id].wav = edit.wav,
                                ![edit.cell_id].dmx =
                                    DMXConfig(@.universe, edit.address, edit.channels,
                                              @.color)]
        /\ ui_clipboard' = SeenByClipboard(edit.cell_id, ui_cells')
        /\ ui_obs' = UiObs("edit", ui_cells[edit.cell_id] # NoEntry, NoPos,
                           <<RowOf(edit.cell_id), ColOf(edit.cell_id)>>)
        /\ UNCHANGED <<ui_alive, ui_raised, ui_room, ui_clip_alias, ui_last,
                       ui_last_ground, cal_active, cal_phase, cal_wait, cal_countdown,
                       ui_offset, ui_saved, valVars>>
        /\ UNCHANGED <<dmxVars, mixer, audioVars, seVars, last_call, bridgeVars, tickObs>>

\* the cells the copy and paste buttons are pressed on in the model
ClipCells == {rc_key(0, 0), rc_key(0, 1), rc_key(0, 2)}
CopyCells == ClipCells \ {rc_key(0, 2)}

\* GridUI._copy_cell(row, col), the slot of a cell's copy button
UiCopyCell ==
    \E k \in CopyCells :
        /\ ui_alive
        /\ ui_clipboard' = IF ui_cells[k] # NoEntry THEN clone(ui_cells[k])
                           ELSE ui_clipboard
        /\ ui_clip_alias' = IF ui_cells[k] # NoEntry THEN clone_alias(k)
                            ELSE ui_clip_alias
        /\ ui_obs' = UiObs("copy", ui_cells[k] # NoEntry, NoPos, <<RowOf(k), ColOf(k)>>)
        /\ UNCHANGED <<ui_alive, ui_raised, ui_room, ui_cells, ui_last, ui_last_ground,
                       cal_active, cal_phase, cal_wait, cal_countdown, ui_offset,
                       ui_saved, valVars>>
        /\ UNCHANGED <<dmxVars, mixer, audioVars, seVars, last_call, bridgeVars, tickObs>>

\* GridUI._paste_cell(row, col, display_btn), the slot of a cell's paste button;
\* the button exists for the cells of the grid only
UiPasteCell ==
    \E k \in ClipCells :
        /\ ui_alive
        /\ ui_cells[k] # NoEntry
        /\ ui_cells' = IF ui_clipboard # NoEntry
                       THEN [ui_cells EXCEPT ![k] = apply_from(@, ui_clipboard)]
                       ELSE ui_cells
        /\ ui_clipboard' = SeenByClipboard(k, ui_cells')
        /\ ui_obs' = UiObs("paste", ui_clipboard # NoEntry, NoPos, <<RowOf(k), ColOf(k)>>)
        /\ UNCHANGED <<ui_alive, ui_raised, ui_room, ui_clip_alias, ui_last,
                       ui_last_ground, cal_active, cal_phase, cal_wait, cal_countdown,
                       ui_offset, ui_saved, valVars>>
        /\ UNCHANGED <<dmxVars, mixer, audioVars, seVars, last_call, bridgeVars, tickObs>>

\* GridUI.__init__: the stored room is taken as it is; cells.json is absent or
\* holds a grid of the same size
InitUi ==
    /\ ui_alive = TRUE
    /\ ui_raised = ""
    /\ ui_room \in StoredStates
    /\ ui_cells \in {build_default_grid(ui_room), LoadedGrid(ui_room)}
    /\ ui_last = NoKey
    /\ ui_last_ground = NoGround
    /\ cal_active = FALSE
    /\ cal_phase = 0
    /\ cal_wait = 0
    /\ cal_countdown = 0
    /\ ui_offset = <<0, 0>>
    /\ ui_obs = NoObs
    /\ ui_saved = NoSaved
    /\ ui_clipboard = NoEntry
    /\ ui_clip_alias = NoKey
    /\ NoValidate

\* the application is started again: GridUI.__init__ reads back the room and
\* grid of config/system_state.json and the cells of cells.json, which hold what
\* was in use; ZoneMapper3D.__init__ sets the offsets to 0.0, and the engines
\* and the calibration start afresh
UiRestart ==
    /\ ui_alive' = TRUE
    /\ ui_raised' = ""
    /\ ui_last' = NoKey
    /\ ui_last_ground' = NoGround
    /\ cal_active' = FALSE
    /\ cal_phase' = 0
    /\ cal_wait' = 0
    /\ cal_countdown' = 0
    /\ ui_offset' = <<0, 0>>
    /\ ui_obs' = UiObs("restart", FALSE, NoPos, NoCell)
    /\ se_enabled' = FALSE
    /\ se_initialized' = FALSE
    /\ se_cells' = [k \in SeKeys |-> NoState]
    /\ se_cache' = {}
    /\ mixer' = MixerInit
    /\ last_call' = CallRec("none", NoKey, MixerInit, MixerInit, FALSE, NoChan)
    /\ ui_clipboard' = NoEntry
    /\ ui_clip_alias' = NoKey
    /\ UNCHANGED <<ui_room, ui_cells, ui_saved, valVars>>
    /\ UNCHANGED <<dmxVars, audioVars, bridgeVars, tickObs>>

\* the offsets a calibration begins with in the model
OffsetInputs == {<<0, 0>>, <<250, 0 - 100>>}

\* GridUI in the course of a calibration count: _calibration_phase is 2 and the
\* countdown is about to run out, with or without a retained ground
\* projection. No slot of GridUI sets _calibration_phase, so this is the state
\* in which the phase-2 block of the tick (lines 549-602) is entered directly.
InitCounting ==
    /\ ui_alive = TRUE
    /\ ui_raised = ""
    /\ ui_room \in StoredStates
    /\ ui_cells = build_default_grid(ui_room)
    /\ ui_last = NoKey
    /\ ui_last_ground \in GroundInputs \cup {NoGround}
    /\ cal_active = TRUE
    /\ cal_phase = 2
    /\ cal_wait = 0
    /\ cal_countdown \in {1, 2}
    /\ ui_offset \in OffsetInputs
    /\ ui_obs = NoObs
    /\ ui_saved = NoSaved
    /\ ui_clipboard = NoEntry
    /\ ui_clip_alias = NoKey
    /\ NoValidate

\* no GridUI is running
NoGridUi ==
    /\ ui_alive = FALSE
    /\ ui_raised = ""
    /\ ui_room = DefaultRoom
    /\ ui_cells = build_default_grid(DefaultRoom)
    /\ ui_last = NoKey
    /\ ui_last_ground = NoGround
    /\ cal_active = FALSE
    /\ cal_phase = 0
    /\ cal_wait = 0
    /\ cal_countdown = 0
    /\ ui_offset = <<0, 0>>
    /\ ui_obs = NoObs
    /\ ui_saved = NoSaved
    /\ ui_clipboard = NoEntry
    /\ ui_clip_alias = NoKey

----------------------------------------------------------------------------
(* Specifications *)

NoUi == NoGridUi /\ NoValidate

\* the bridge of V1: sensor ticks drive the debounce, the AudioEngine and a
\* DMXOutput in simulation mode (the transport itself is studied under SpecDmx)
Init == NoDmx /\ InitAudio /\ InitSound /\ InitMixer /\ InitBridge /\ InitTickObs /\ NoUi
Next == Tick \/ MixerChannelEnds
Spec == Init /\ [][Next]_vars

\* DMXAudioBridge.run step by step, with stop() arriving at any point; the
\* thread that executes run is scheduled again and again, stop() need never come
InitRun == InitDmx /\ InitAudio /\ InitSound /\ InitMixer /\ InitBridge /\ InitTickObs /\ NoUi
NextRun == RunStep \/ RunStop \/ RunChannelEnds
SpecRun == InitRun /\ [][NextRun]_vars /\ WF_vars(RunStep)

\* DMXOutput alone, driven by arbitrary calls
InitDmxOnly == InitDmx /\ NoAudio /\ InitSound /\ InitMixer /\ InitBridge /\ InitTickObs /\ NoUi
NextDmx == DmxSetChannels \/ DmxFlush \/ DmxBlackout \/ DmxReset
SpecDmx == InitDmxOnly /\ [][NextDmx]_vars

\* the bridge's ticks under the mappings of MappingInputs, audio disabled
InitMap == NoDmx /\ NoAudio /\ InitSound /\ InitMixer /\ InitMapBridge /\ InitTickObs /\ NoUi
NextMap == Tick
SpecMap == InitMap /\ [][NextMap]_vars

\* the bridge's ticks without a bound on their number
InitLong == NoDmx /\ InitAudio /\ InitSound /\ InitMixer /\ InitBridge /\ InitTickObs /\ NoUi
NextLong == LongTick
SpecLong == InitLong /\ [][NextLong]_vars

\* AudioEngine alone, driven by arbitrary calls
InitAudioOnly == NoDmx /\ InitAudio /\ InitSound /\ InitMixer /\ InitBridge /\ InitTickObs /\ NoUi
NextAudio == AudioNoteOn \/ AudioNoteOff \/ MixerChannelEnds
SpecAudio == InitAudioOnly /\ [][NextAudio]_vars

\* SoundEngine alone, driven by arbitrary calls
InitSoundOnly == NoDmx /\ NoAudio /\ InitSound /\ InitMixer /\ InitBridge /\ InitTickObs /\ NoUi
NextSound == SePlayForCell \/ SeStopCell \/ SeStopAll
SpecSound == InitSoundOnly /\ [][NextSound]_vars

\* GridUI on its own: the timer tick and the slots of its buttons and dialogs
InitUI == NoDmx /\ NoAudio /\ InitSound /\ InitMixer /\ InitBridge /\ InitTickObs /\ InitUi
NextUI == UiTick \/ UiStartCalibration \/ UiConfigure \/ UiEditCell
SpecUI == InitUI /\ [][NextUI]_vars

\* the phase-2 block of the GridUI tick, entered directly, and a restart
InitCal == NoDmx /\ NoAudio /\ InitSound /\ InitMixer /\ InitBridge /\ InitTickObs
           /\ InitCounting
NextCal == UiTick \/ UiRestart
SpecCal == InitCal /\ [][NextCal]_vars

\* the cell registry under the copy and paste buttons of the grid
InitCells == InitUI
NextCells == UiCopyCell \/ UiPasteCell \/ UiEditCell
SpecCells == InitCells /\ [][NextCells]_vars

\* validate_room_and_matrix on its own: a call, then a call on its result
InitVal == NoDmx /\ NoAudio /\ InitSound /\ InitMixer /\ InitBridge /\ InitTickObs
           /\ NoGridUi /\ InitValidate
NextVal == Validate \/ ValidateAgain
SpecVal == InitVal /\ [][NextVal]_vars

----------------------------------------------------------------------------
(* Claims on the activation filter of the bridge, under Spec *)

\* the entries of the last tick's audio log of one kind for one cell
LogOf(kind, cell) ==
    {k \in 1..Len(audio_log) : audio_log[k].kind = kind /\ audio_log[k].cell = cell}

\* the cells whose state the last tick changed
Changed == {cell \in Cells : state[cell] # prev_state[cell]}

Thm_C3 ==
    /\ ACTIVATE_N = 3
    /\ \A cell \in Cells :
        /\ (~run_start[cell] /\ present_run[cell] \in 1..(ACTIVATE_N - 1)) =>
               ~state[cell] /\ LogOf("on", cell) = {}
        /\ (~run_start[cell] /\ present_run[cell] = ACTIVATE_N) =>
               state[cell] /\ Cardinality(LogOf("on", cell)) = 1
        /\ present_run[cell] > ACTIVATE_N =>
               state[cell] /\ LogOf("on", cell) = {}

\* C3's case: no cell active, one cell detected on the first ACTIVATE_N ticks
Wit_C3 ==
    /\ ticks = ACTIVATE_N
    /\ \E cell \in Cells :
           /\ raw = {cell}
           /\ present_run[cell] = ACTIVATE_N
           /\ ActiveCells(prev_state) = {}
           /\ ActiveCells(state) = {cell}
           /\ audio_log = <<[kind |-> "on", cell |-> cell, others |-> {}]>>

\* C4: a cell that is active when a run of consecutive absences begins stays
\* active, with no note-off, for the first DEACTIVATE_N - 1 ticks of the run and
\* is deactivated, with exactly one note-off, on tick DEACTIVATE_N; the absence
\* counter is the length of the current run, zero after a tick that detects the
\* cell.
Thm_C4 ==
    /\ DEACTIVATE_N = 6
    /\ \A cell \in Cells :
        /\ (run_start[cell] /\ absent_run[cell] \in 1..(DEACTIVATE_N - 1)) =>
               state[cell] /\ LogOf("off", cell) = {}
        /\ (run_start[cell] /\ absent_run[cell] = DEACTIVATE_N) =>
               ~state[cell] /\ Cardinality(LogOf("off", cell)) = 1
        /\ off_count[cell] = Min(absent_run[cell], COUNT_MAX)
        /\ cell \in raw => off_count[cell] = 0

\* C4's case: an active cell loses its state on its DEACTIVATE_N-th absence
Wit_C4 ==
    \E cell \in Cells :
        /\ run_start[cell]
        /\ prev_state[cell]
        /\ absent_run[cell] = DEACTIVATE_N
        /\ ~state[cell]
        /\ LogOf("off", cell) # {}

\* C5: a cell becomes active, and gets a note-on, only on a tick that ends
\* ACTIVATE_N or more consecutive detections of it; as long as no cell has been
\* detected ACTIVATE_N ticks in a row, and so throughout a sequence alternating
\* between cells, no cell is active and no note-on has been issued.
Thm_C5 ==
    /\ \A k \in 1..Len(audio_log) :
           audio_log[k].kind = "on" => present_run[audio_log[k].cell] >= ACTIVATE_N
    /\ \A cell \in Cells :
           (state[cell] /\ ~prev_state[cell]) => present_run[cell] >= ACTIVATE_N
    /\ (~had_run \/ alternating) => (~ever_on /\ ActiveCells(state) = {})

\* C5's case: MaxTicks ticks alternating between two cells
Wit_C5 ==
    /\ ticks = MaxTicks
    /\ alternating
    /\ \E a, b \in Cells :
           a # b /\ present_run[a] = 1 /\ absent_run[b] = 1 /\ raw = {a}
    /\ ~ever_on

NoFrameTick == ticks' # ticks /\ read_outcome' # "frame"

\* the keys of the cells a step turns off
TurnedOff == {KeyOf(cell) : cell \in {x \in Cells : state[x] /\ ~state'[x]}}

\* C14 (as stated; it fails): a tick whose read yields no frame (timeout or
\* sensor error) changes no engine state: the counters, the active cells and
\* the live voices are the same after the tick as before it.
Cx_C14 ==
    [][NoFrameTick => /\ state' = state
                      /\ on_count' = on_count
                      /\ off_count' = off_count
                      /\ audio_active' = audio_active]_vars

\* what the bridge does instead: it runs a tick without a frame as a tick that
\* detected no cell. Every _on_count is reset to 0, every _off_count goes up by
\* one (saturating at COUNT_MAX), a cell that is on goes off, with its note-off,
\* exactly when its _off_count reaches DEACTIVATE_N, no cell goes on and no
\* voice is started.
NoFrameIsEmptyDetection ==
    [][NoFrameTick =>
         /\ raw' = {}
         /\ \A cell \in Cells :
               /\ on_count'[cell] = 0
               /\ off_count'[cell] = Min(off_count[cell] + 1, COUNT_MAX)
               /\ state'[cell] = (state[cell] /\ off_count'[cell] < DEACTIVATE_N)
         /\ audio_active' = audio_active \ TurnedOff
         /\ \A k \in 1..Len(audio_log') : audio_log'[k].kind = "off"]_vars

\* a tick without a frame has just turned off a cell that was on
NoFrameTurnsOff ==
    /\ ticks > 0
    /\ read_outcome # "frame"
    /\ \E cell \in Cells : prev_state[cell] /\ ~state[cell] /\ off_count[cell] = DEACTIVATE_N
    /\ Len(audio_log) = 1

----------------------------------------------------------------------------
(* Claims on the audio engines, under SpecSound *)

\* the channels on which a cell id has a live voice: busy with a sound started
\* for that id and not released (fading out)
LiveChannels(id) ==
    {ch \in Channels : get_busy(mixer, ch) /\ mixer.chan[ch].by = id
                       /\ ~mixer.chan[ch].fading}

HasLiveVoice(id) ==
    /\ se_cells[id] # NoState
    /\ se_cells[id].channel # NoChan
    /\ get_busy(mixer, se_cells[id].channel)
    /\ mixer.chan[se_cells[id].channel].by = id

\* C31: play_for_cell on a cell that already has a live voice changes only the
\* volume and pan of that voice: the playback is not started again, no channel
\* is taken, and the voice and channel of every other cell stay as they were.
Thm_C31 ==
    [][\A id \in CallKeys :
          (last_call'.op = "play_for_cell" /\ last_call'.key = id /\ HasLiveVoice(id)) =>
              LET own == se_cells[id].channel
              IN  /\ ~last_call'.fresh /\ last_call'.took = NoChan
                  /\ \A k \in SeKeys :
                         /\ se_cells'[k] # NoState <=> se_cells[k] # NoState
                         /\ se_cells'[k].channel = se_cells[k].channel
                         /\ k # id => se_cells'[k] = se_cells[k]
                  /\ \A ch \in Channels \ {own} : mixer'.chan[ch] = mixer.chan[ch]
                  /\ mixer'.chan[own] =
                         [mixer.chan[own] EXCEPT !.vol = mixer'.chan[own].vol]
                  /\ mixer'.order = mixer.order]_vars

\* play_for_cell has been called with another sound for a cell whose voice is
\* live while another cell's voice is live too: no channel was taken and the
\* cell's channel still plays the sound it was started with
Wit_C31 ==
    /\ last_call.op = "play_for_cell" /\ ~last_call.fresh
    /\ HasLiveVoice(last_call.key)
    /\ mixer.chan[se_cells[last_call.key].channel].snd # se_cells[last_call.key].wav_path
    /\ \E other \in CallKeys \ {last_call.key} : HasLiveVoice(other)

----------------------------------------------------------------------------
(* Claims on the AudioEngine of the bridge, under SpecAudio *)

\* C34: for every cell, over any sequence of note_on and note_off calls (those of
\* the ticks and those of shutdown among them), the calls that take effect
\* alternate note-on, note-off, note-on, ..., starting with a note-on: no second
\* note-on takes effect without a note-off in between, and no note-off takes
\* effect for a key that is not on.
Thm_C34 ==
    \A key \in AllKeys \cup CallKeys :
        /\ note_fx[key] # "broken"
        /\ key \in audio_active <=> note_fx[key] \in {"on", "on_again"}

\* C34's case: one key has gone on, off and on again, another on, off, on and
\* off again, and the last call is that note_off
Wit_C34 ==
    \E key \in CallKeys, other \in CallKeys :
        /\ note_fx[key] = "on_again"
        /\ note_fx[other] = "off_again"
        /\ last_call.op = "note_off" /\ last_call.key = other

\* the same under SpecRun: shutdown has run, its note_off took effect for the
\* cell that was on and none did for a cell that never was
ReleasedAtShutdown ==
    /\ pc = "done"
    /\ note_fx[rc_key(0, 0)] = "off"
    /\ note_fx[rc_key(0, 1)] = "none"

----------------------------------------------------------------------------
(* Claims on the counters of the bridge over long runs, under SpecLong *)

\* C35: after every tick, every cell's on_count and off_count are within
\* 0..255 and at least one of the two is 0; the counters saturate at 255 and do
\* not wrap: the counter of a cell the tick reported is at least 1 and not below
\* what it was, and likewise off_count for a cell the tick did not report.
Thm_C35 ==
    [][\A cell \in Cells :
          /\ on_count'[cell] \in 0..COUNT_MAX
          /\ off_count'[cell] \in 0..COUNT_MAX
          /\ on_count'[cell] = 0 \/ off_count'[cell] = 0
          /\ cell \in raw' => on_count'[cell] >= Max(on_count[cell], 1)
          /\ cell \notin raw' => off_count'[cell] >= Max(off_count[cell], 1)]_vars

\* C35's case: a cell reported often enough for its on_count to stand at 255,
\* reported again on the last tick
Wit_C35 ==
    /\ raw = Cells
    /\ \A cell \in Cells : on_count[cell] = COUNT_MAX /\ off_count[cell] = 0 /\ state[cell]
    /\ prev_state = state

\* the same for off_count
OffCountSaturated ==
    /\ raw = {}
    /\ \A cell \in Cells : off_count[cell] = COUNT_MAX /\ on_count[cell] = 0 /\ ~state[cell]
    /\ \E key \in AllKeys : note_fx[key] = "off"

----------------------------------------------------------------------------
(* Claims on the DMX bytes of the cells, under SpecMap *)

\* the buffer indices of the three bytes of a cell: address_of is 1-based
BlockOf(cell) ==
    LET address == address_of(cfg_dmx, cell[1], cell[2])
    IN  <<address - 1, address, address + 1>>

BlockInside(cell) == BlockOf(cell)[1] >= 0 /\ BlockOf(cell)[3] < DMX_SLOTS

BlockBytes(cell) ==
    <<buffer[BlockOf(cell)[1]], buffer[BlockOf(cell)[2]], buffer[BlockOf(cell)[3]]>>

\* C36: after every tick, for a mapping with base address >= 1 and at least 3
\* channels per cell, the three DMX bytes of each cell whose block lies inside
\* the universe are (255, 50, 0) if the cell's filtered state is active and
\* (0, 0, 0) otherwise, whatever the tick detected.
Thm_C36 ==
    (ticks > 0 /\ cfg_dmx.base_address >= 1 /\ cfg_dmx.channels_per_cell >= 3) =>
        \A cell \in Cells :
            BlockInside(cell) =>
                BlockBytes(cell) = IF state[cell] THEN <<255, 50, 0>> ELSE <<0, 0, 0>>

\* C36's case: under the mapping that starts at 505, a tick that reported cell
\* (0,1), not yet active, and not cell (0,0), still active
Wit_C36 ==
    /\ cfg_dmx.base_address = 505
    /\ raw = {<<0, 1>>}
    /\ state[<<0, 0>>] /\ ~state[<<0, 1>>]
    /\ BlockBytes(<<0, 0>>) = <<255, 50, 0>>
    /\ BlockBytes(<<0, 1>>) = <<0, 0, 0>>
    /\ ~BlockInside(<<1, 0>>) /\ ~BlockInside(<<1, 1>>)

\* with two channels per cell the blocks overlap: the third byte of an active
\* cell is the first byte of the next one
BlocksOverlap ==
    /\ cfg_dmx.channels_per_cell = 2
    /\ state[<<0, 0>>] /\ state[<<0, 1>>]
    /\ BlockBytes(<<0, 0>>) = <<255, 50, 255>>

----------------------------------------------------------------------------
(* Claims on DMXOutput, under SpecDmx *)

\* C9: after any sequence of set_channels_for_cell, blackout and flush calls with
\* arbitrary integer addresses and values, the DMX buffer has exactly DMX_SLOTS
\* (512) entries and every entry is in 0..255.
Thm_C9 ==
    /\ DOMAIN buffer = 0..(DMX_SLOTS - 1)
    /\ Cardinality(DOMAIN buffer) = 512
    /\ \A i \in DOMAIN buffer : buffer[i] \in 0..255

\* C9's case: a write at the last address whose values are out of the byte range
\* and run past the end of the universe, on top of a clamped write at index 0
Wit_C9 ==
    /\ last_write = [address |-> DMX_SLOTS, values |-> <<200, 256, -1>>]
    /\ buffer[DMX_SLOTS - 1] = 200
    /\ buffer[0] = 255
    /\ last_flush \in {"sent", "failed"}

Cx_C11 == (has_ola /\ dmx_call = "reset") => ~simulated

\* C29 (as stated; it fails): blackout() leaves the buffer all zero, and a
\* second blackout() directly after the first leaves it all zero and transmits
\* nothing more. In the code every blackout ends with flush(), which sends the
\* buffer whenever the engine is not in simulation mode.
Cx_C29 ==
    /\ dmx_call \in {"blackout", "blackout_again"} => buffer = ZeroBuffer
    /\ dmx_call = "blackout_again" => last_flush = "skipped"

\* what does hold: the buffer is all zero after every blackout, and a blackout
\* skips the transmission only where a flush would, in simulation mode
BlackoutFlushes ==
    dmx_call \in {"blackout", "blackout_again"} =>
        /\ buffer = ZeroBuffer
        /\ ~simulated => last_flush \in {"sent", "failed"}
        /\ last_flush = "skipped" => simulated

\* C30: set_channels_for_cell(address, values) with address >= 1 writes
\* clamp(values[i], 0, 255) to index address - 1 + i of the buffer for every i
\* whose index is at most 511, ignores the writes past 511 and leaves every
\* other byte of the buffer as it was.
Thm_C30 ==
    [][(dmx_call' = "set_channels_for_cell" /\ last_write'.address >= 1) =>
          \A idx \in 0..(DMX_SLOTS - 1) :
              LET i == idx - (last_write'.address - 1)
              IN  buffer'[idx] =
                      IF 0 <= i /\ i < Len(last_write'.values)
                      THEN Max(0, Min(255, last_write'.values[i + 1]))
                      ELSE buffer[idx]]_vars

\* a write of three values at address 512: the first is written at index 511,
\* the two past the end are ignored, and index 1, written before, is kept
Wit_C30 ==
    /\ dmx_call = "set_channels_for_cell"
    /\ last_write = [address |-> DMX_SLOTS, values |-> <<200, 256, -1>>]
    /\ buffer[DMX_SLOTS - 1] = 200
    /\ buffer[1] = 255

----------------------------------------------------------------------------
(* Claims on the run loop of the bridge, under SpecRun *)

ShutdownSteps == <<"release", "blackout", "sensor", "audio">>

InShutdown == pc \in {"sd_release", "sd_blackout", "sd_sensor", "sd_audio", "done"}

\* what holds at every point of run as far as stop and shutdown go
StopSafety ==
    /\ InShutdown => stop_set
    /\ flushes_after_stop <= 1
    /\ (InShutdown /\ stop_phase \in {"read", "update", "flush"}) =>
           flushes_after_stop = 1
    /\ stop_phase = "test" => flushes_after_stop = 0
    /\ Len(sd_log) <= Len(ShutdownSteps)
    /\ \A k \in 1..Len(sd_log) : sd_log[k] = ShutdownSteps[k]
    /\ pc = "done" =>
           /\ sd_log = ShutdownSteps
           /\ audio_active = {}
           /\ \A ch \in Channels : ~(get_busy(mixer, ch) /\ ~mixer.chan[ch].fading)
           /\ buffer = ZeroBuffer
           /\ ~sensor_on

\* C12: after stop() the tick in progress runs to completion and no further
\* tick is completed; shutdown then releases every voice, blacks out the DMX
\* buffer and stops the sensor, in that order, and when it returns no cell has a
\* live voice and the DMX buffer is all zero; shutdown is reached and finished
\* whenever stop() was called.
Thm_C12 == []StopSafety /\ (stop_set ~> (pc = "done"))

\* C12's case: stop() arrives in the middle of a tick, with a cell active; the
\* tick is completed and shutdown has returned
Wit_C12 ==
    /\ pc = "done"
    /\ stop_phase = "update"
    /\ flushes_after_stop = 1
    /\ audio_enabled
    /\ has_ola
    /\ \E cell \in Cells : state[cell]

----------------------------------------------------------------------------
(* Claims on validate_room_and_matrix, under SpecVal *)

\* C15: for every input (width, depth, cols, rows) the result has width >= 1.0,
\* depth >= 1.0, cols <= floor(width) and rows <= floor(depth); width and depth
\* are returned unchanged when they were already >= 1.0, and cols and rows are
\* returned unchanged when they did not exceed their maximum.
Thm_C15 ==
    val_out # NoResult =>
        /\ val_out.width >= 1000
        /\ val_out.depth >= 1000
        /\ val_out.cols <= val_out.width \div 1000
        /\ val_out.rows <= val_out.depth \div 1000
        /\ val_in.width >= 1000 => val_out.width = val_in.width
        /\ val_in.depth >= 1000 => val_out.depth = val_in.depth
        /\ val_in.cols <= val_out.width \div 1000 => val_out.cols = val_in.cols
        /\ val_in.rows <= val_out.depth \div 1000 => val_out.rows = val_in.rows

\* a call that raised the width and lowered the columns, and kept depth and rows
Wit_C15 ==
    /\ val_out # NoResult
    /\ val_in.width < 1000 /\ val_out.width = 1000
    /\ val_in.cols > 1 /\ val_out.cols = 1
    /\ val_in.depth >= 1000 /\ val_out.rows = val_in.rows /\ val_in.rows = 3

\* the sentences of a message, as a set
Reported(message) == {message[i] : i \in 1..Len(message)}

\* the corrections a call has applied
Corrected(in, out) ==
    (IF out.width # in.width THEN {"width"} ELSE {})
        \cup (IF out.depth # in.depth THEN {"depth"} ELSE {})
        \cup (IF out.cols # in.cols THEN {"cols"} ELSE {})
        \cup (IF out.rows # in.rows THEN {"rows"} ELSE {})

\* C32 (as stated; it fails): the message reports every correction that was
\* applied, several in one call included, and is empty exactly when no value
\* was corrected. In the code the sentence about the columns is assigned to the
\* message, not added: it replaces the sentences about the width and the depth.
Cx_C32 ==
    val_out # NoResult =>
        /\ Reported(val_out.message) = Corrected(val_in, val_out)
        /\ val_out.message = <<>> <=> Corrected(val_in, val_out) = {}

\* what does hold: only applied corrections are reported, those of the columns
\* and the rows always are, those of the width and the depth are unless the
\* columns were corrected too, and the message is empty exactly when nothing
\* was corrected
ReportedButOverwritten ==
    val_out # NoResult =>
        LET done == Corrected(val_in, val_out)
        IN  /\ Reported(val_out.message) =
                   IF "cols" \in done THEN done \ {"width", "depth"} ELSE done
            /\ val_out.message = <<>> <=> done = {}

\* C16: validate_room_and_matrix applied to its own result returns the same
\* width, depth, cols and rows, and the message of that second call is empty.
Thm_C16 ==
    val_again # NoResult =>
        /\ val_again.width = val_out.width
        /\ val_again.depth = val_out.depth
        /\ val_again.cols = val_out.cols
        /\ val_again.rows = val_out.rows
        /\ val_again.message = <<>>

\* the second call was made on a result whose first call corrected the depth
\* and the rows and reported both
Wit_C16 ==
    /\ val_again # NoResult
    /\ val_out.message = <<"depth", "rows">>
    /\ val_out.rows < val_in.rows
    /\ val_out.depth > val_in.depth

----------------------------------------------------------------------------
(* Claims on GridUI, under SpecUI *)

\* C13 (as stated; it fails): an error raised by a stage of a tick is absorbed at
\* that stage, so no exception leaves update_frame_and_zones and the timer keeps
\* ticking. In the code the audio stage of the tick calls
\* SoundEngine.release_cell, which does not exist, as soon as the person is
\* localized in a second configured cell: the AttributeError leaves the slot.
Cx_C13 == ui_alive /\ ui_raised = ""

\* a room and matrix that validation would leave as it is, with at least one
\* row and one column
RoomValid(room) ==
    /\ room.width >= 1000
    /\ room.depth >= 1000
    /\ 1 <= room.rows /\ room.rows <= room.depth \div 1000
    /\ 1 <= room.cols /\ room.cols <= room.width \div 1000

\* C17 (as stated; it fails): whenever GridUI is running, after the startup load
\* of the stored state and after every accepted reconfiguration, the room in use
\* has width >= 1.0, depth >= 1.0, 1 <= rows <= floor(depth) and
\* 1 <= cols <= floor(width). In the code the stored state is put into use as it
\* was read, without validation.
Cx_C17 == ui_alive => RoomValid(ui_room)

\* what does hold: a reconfiguration that is accepted puts a valid room into use
AcceptedRoomValid ==
    [][(ui_obs'.op = "config" /\ ui_room' # ui_room) => RoomValid(ui_room')]_vars

\* a reconfiguration has been accepted and has changed the room
AcceptedRoomSeen == ui_obs.op = "config" /\ ui_obs.polled /\ ui_room \notin StoredStates

\* C18 (as stated; it fails): every per-cell DMX configuration that is stored
\* has 1 <= address and address + channels - 1 <= 512. In the code the cell
\* editor bounds the address and the number of channels each on its own, so a
\* footprint that runs past slot 512 is stored as entered.
Cx_C18 ==
    \A k \in UiKeys :
        ui_cells[k] # NoEntry =>
            /\ 1 <= ui_cells[k].dmx.address
            /\ ui_cells[k].dmx.address + ui_cells[k].dmx.channels - 1 <= DMX_SLOTS

\* what does hold of a stored configuration: each field is within its spin box
StoredDmxInRange ==
    \A k \in UiKeys :
        ui_cells[k] # NoEntry =>
            /\ 1 <= ui_cells[k].dmx.address /\ ui_cells[k].dmx.address <= DMX_SLOTS
            /\ 1 <= ui_cells[k].dmx.channels /\ ui_cells[k].dmx.channels <= 16

\* C19 (as stated; it fails): once _start_calibration is accepted the calibrator
\* is Preparing (phase 1), then Counting (phase 2), then computes and returns to
\* Idle; a running calibration is in one of these phases. In the code nothing
\* sets _calibration_phase, so the running calibration is in phase 0, which the
\* tick does not handle.
Cx_C19 == cal_active => cal_phase \in {1, 2}

\* what the code does instead: a calibration that is running stays running, in
\* phase 0 and with its countdown where _start_calibration put it, whatever
\* frames arrive
CalibrationNeverEnds ==
    [][cal_active => (cal_active' /\ cal_phase' = 0 /\ cal_countdown' = 150
                                 /\ cal_wait' = cal_wait)]_vars

\* a tick has processed a frame, up to the audio call, while a calibration runs
CalibrationRunsOn ==
    cal_active /\ ui_obs.op = "tick" /\ ui_obs.polled /\ ui_last # NoKey

\* the cell of the grid whose floor area contains a point, NoCell outside the room
ContainingCell(x, y, room) ==
    IF 0 <= x /\ x < room.width /\ 0 <= y /\ y < room.depth
    THEN <<(y * room.rows) \div room.depth, (x * room.cols) \div room.width>>
    ELSE NoCell

\* C23 (as stated; it fails): the localization of a tick returns None for a
\* position with x < 0, x >= room_width, y < 0 or y >= room_depth, and for every
\* other position (floor(y / cell_depth), floor(x / cell_width)). In the code
\* the tick localizes with _map_position_to_cell_local, which tests only y
\* against the room and takes the column from where x lies in the point cloud.
Cx_C23 ==
    (ui_obs.op = "tick" /\ ui_obs.pos # NoPos) =>
        ui_obs.cell = ContainingCell(ui_obs.pos[1], ui_obs.pos[2], ui_room)

\* what does hold: a position with y outside [0, room_depth) has no cell, and a
\* cell that is returned lies in the grid, in the row of y
LocalCellInGrid ==
    (ui_obs.op = "tick" /\ ui_obs.pos # NoPos) =>
        IF ui_obs.pos[2] < 0 \/ ui_obs.pos[2] >= ui_room.depth
        THEN ui_obs.cell = NoCell
        ELSE /\ ui_obs.cell # NoCell
             /\ ui_obs.cell[1] = (ui_obs.pos[2] * ui_room.rows) \div ui_room.depth
             /\ 0 <= ui_obs.cell[2] /\ ui_obs.cell[2] < ui_room.cols

\* a tick has given a cell to a position at x = room_width
EdgeHasCell ==
    /\ ui_obs.op = "tick" /\ ui_obs.cell # NoCell
    /\ ui_obs.pos[1] = ui_room.width

\* C24 (as stated; it fails): the position of a tick is None for every ground
\* cloud with fewer than 20 points, and the medians of x and y for every cloud
\* with 20 points or more. In the code the test is on ground_xy.size, which
\* counts two values per point: a cloud of 10 to 19 points gives a position.
Cx_C24 ==
    (ui_obs.op = "tick" /\ ui_obs.polled) =>
        ui_obs.pos = IF ui_last_ground.n < 20 THEN NoPos
                     ELSE <<ui_last_ground.x, ui_last_ground.y>>

\* what does hold: a tick that retained a cloud has no position when the cloud
\* has fewer than 10 points, and the medians otherwise
LocateFromTenPoints ==
    (ui_obs.op = "tick" /\ ui_obs.pos # NoPos) =>
        /\ ui_last_ground.n >= 10
        /\ ui_obs.pos = <<ui_last_ground.x, ui_last_ground.y>>

\* C25 (as stated; it fails): every ground point the projection emits lies
\* inside the configured room, 0 < x < room_width and 0 < y < room_depth. In the
\* code the projection keeps the points of a fixed box, 0 < x < 3.6 and
\* 0.7 < y < 4.5, whatever the room is.
Cx_C25 ==
    (ui_obs.op = "tick" /\ ui_obs.pos # NoPos) =>
        /\ 0 < ui_last_ground.min_x /\ ui_last_ground.max_x < ui_room.width
        /\ 0 < ui_last_ground.min_y /\ ui_last_ground.max_y < ui_room.depth

\* what does hold: the emitted points lie in the fixed box of mask_phys
GroundInFixedBox ==
    (ui_last_ground # NoGround) =>
        /\ 0 < ui_last_ground.min_x /\ ui_last_ground.max_x < 3600
        /\ 700 < ui_last_ground.min_y /\ ui_last_ground.max_y < 4500

OffsetNeverCommitted == ui_offset = <<0, 0>> /\ cal_phase = 0

\* the GridUI side of C14: a tick whose poll gives no frame returns at once and
\* leaves the active cell, the retained ground projection, the calibration, the
\* offsets and the voices as they were
UiNoFrameKeeps ==
    [][(ui_obs'.op = "tick" /\ ~ui_obs'.polled /\ ui_obs' # ui_obs)
          => UiEngine' = UiEngine]_vars

\* the settings of a cell entry that a rebuild keeps, and its world bounds
EntrySettings(e) == <<e.name, e.wav, e.volume, e.dmx, e.active>>
EntryBounds(e) == <<e.x_min, e.x_max, e.y_min, e.y_max>>

\* C26: rebuild_grid called with the room width, room depth, rows and cols the
\* registry already has (keep_existing = true) leaves every cell entry as it
\* was: the same cell ids and for each the same name, world bounds, sound,
\* volume, DMX settings and active flag.
Thm_C26 ==
    [][(ui_obs'.op = "config_same" /\ ui_obs' # ui_obs) => ui_cells' = ui_cells]_vars

\* the dialog has been accepted with the values in use on a grid that holds an
\* entry with a sound and an entry that is not active
Wit_C26 ==
    /\ ui_obs.op = "config_same"
    /\ ui_cells[rc_key(0, 0)].wav = ""
    /\ ui_cells[rc_key(0, 1)].wav = "a.wav" /\ ~ui_cells[rc_key(0, 1)].active

\* C27: after rebuild_grid(width, depth, rows, cols, keep_existing = true) the
\* registry holds exactly the cells (r, c) with 0 <= r < rows and 0 <= c < cols;
\* a cell that existed before keeps its name, sound, volume, DMX settings and
\* active flag, a cell that did not exist has the default settings, and the
\* world bounds of every cell are those of the new room.
Thm_C27 ==
    [][(ui_obs'.op \in {"config", "config_same"} /\ ui_obs'.polled /\ ui_obs' # ui_obs) =>
          \A k \in UiKeys :
              IF k \notin GridKeys(ui_room'.rows, ui_room'.cols)
              THEN ui_cells'[k] = NoEntry
              ELSE /\ ui_cells'[k] # NoEntry
                   /\ ui_cells'[k].cell_id = k
                   /\ EntryBounds(ui_cells'[k]) = EntryBounds(DefaultEntry(k, ui_room'))
                   /\ EntrySettings(ui_cells'[k]) =
                          IF ui_cells[k] # NoEntry THEN EntrySettings(ui_cells[k])
                          ELSE EntrySettings(DefaultEntry(k, ui_room'))]_vars

\* a grid loaded with a sound on cell (0, 3) has been shrunk to two columns and
\* has grown to four again: cell (0, 3) has the default settings, cell (0, 1),
\* which was never dropped, has kept its sound and its active flag, and both
\* have the bounds of the room in use
Wit_C27 ==
    /\ ui_obs.op = "config" /\ ui_obs.polled
    /\ ui_room.cols = 4 /\ ui_room \notin StoredStates
    /\ ui_cells[rc_key(0, 3)] = DefaultEntry(rc_key(0, 3), ui_room)
    /\ ui_cells[rc_key(0, 1)].wav = "a.wav" /\ ~ui_cells[rc_key(0, 1)].active
    /\ EntryBounds(ui_cells[rc_key(0, 1)]) = EntryBounds(DefaultEntry(rc_key(0, 1), ui_room))

\* C37: a tick of GridUI in which no person or no cell is detected leaves the
\* remembered active cell and its voice as they were; a tick changes the
\* remembered cell only when it detects a cell other than the remembered one,
\* and never sets it back to none.
Thm_C37 ==
    [][ui_obs'.op = "tick" =>
          /\ (ui_obs'.pos = NoPos \/ ui_obs'.cell = NoCell) =>
                 (ui_last' = ui_last /\ se_cells' = se_cells /\ mixer' = mixer)
          /\ ui_last' # ui_last =>
                 /\ ui_obs'.cell # NoCell
                 /\ ui_last' = rc_key(ui_obs'.cell[1], ui_obs'.cell[2])
          /\ ui_last # NoKey => ui_last' # NoKey]_vars

\* C37's case: a cell is remembered and its voice plays, and the last tick had
\* a ground cloud of too few points for a position
Wit_C37 ==
    /\ ui_last # NoKey
    /\ HasLiveVoice(ui_last)
    /\ ui_obs.op = "tick" /\ ui_obs.polled
    /\ ui_obs.frame # NoGround /\ ui_obs.pos = NoPos

\* the same for a tick that has a position and no cell for it
PositionWithoutCell ==
    /\ ui_last # NoKey
    /\ HasLiveVoice(ui_last)
    /\ ui_obs.op = "tick" /\ ui_obs.pos # NoPos /\ ui_obs.cell = NoCell

\* a tick never replaces a remembered cell by another: the tick that detects
\* another cell ends in the AttributeError of C13
NeverReplaced ==
    [][(ui_obs'.op = "tick" /\ ui_last # NoKey) => ui_last' = ui_last]_vars

\* C38 (as stated; it fails): the active cell always satisfies 0 <= row < rows
\* and 0 <= col < cols for the grid in use, after any interleaving of ticks and
\* reconfigurations of the grid. In the code open_config_dialog replaces the
\* grid and leaves _last_active_cell as it is.
Cx_C38 ==
    ui_last # NoKey =>
        /\ 0 <= RowOf(ui_last) /\ RowOf(ui_last) < ui_room.rows
        /\ 0 <= ColOf(ui_last) /\ ColOf(ui_last) < ui_room.cols

\* what does hold: the cell a tick remembers lies in the grid of that tick
RememberedInGrid ==
    [][(ui_obs'.op = "tick" /\ ui_last' # ui_last) =>
          /\ RowOf(ui_last') < ui_room.rows
          /\ ColOf(ui_last') < ui_room.cols]_vars

\* a reconfiguration has shrunk the grid under the remembered cell, whose voice
\* goes on playing
ActiveOutsideGrid ==
    /\ ui_obs.op = "config"
    /\ ui_last # NoKey
    /\ ColOf(ui_last) >= ui_room.cols
    /\ HasLiveVoice(ui_last)

----------------------------------------------------------------------------
(* Claims on the copy of a cell, under SpecCells *)

\* C28 (as stated; it fails): the clone of a cell entry equals the original in
\* every field. In the code clone() does not pass the active flag on, so the
\* clone of an entry that is not active is active.
Cx_C28 ==
    (ui_obs.op = "copy" /\ ui_obs.polled) =>
        ui_clipboard = ui_cells[ui_clipboard.cell_id]

\* what does hold: the clone equals the original in every other field, and is
\* active
CloneButActive ==
    (ui_obs.op = "copy" /\ ui_obs.polled) =>
        /\ ui_clipboard.active
        /\ ui_clipboard = [ui_cells[ui_clipboard.cell_id] EXCEPT !.active = TRUE]

\* the cell id a copy, paste or edit was made on
ObsKey(obs) == rc_key(obs.cell[1], obs.cell[2])

\* C39: pasting the copied configuration into a target cell replaces the
\* target's name, audio path, volume and DMX settings by those of the clipboard
\* and leaves the target's cell id, world bounds and active flag, every other
\* cell and the clipboard as they were; and an edit of a cell, be it the source
\* of the copy or a cell pasted from it, changes no other cell nor the clipboard.
Thm_C39 ==
    [][/\ (ui_obs'.op = "paste" /\ ui_obs'.polled) =>
            LET k == ObsKey(ui_obs') IN
            /\ ui_cells'[k].name = ui_clipboard.name
            /\ ui_cells'[k].wav = ui_clipboard.wav
            /\ ui_cells'[k].volume = ui_clipboard.volume
            /\ ui_cells'[k].dmx = ui_clipboard.dmx
            /\ ui_cells'[k].cell_id = ui_cells[k].cell_id
            /\ EntryBounds(ui_cells'[k]) = EntryBounds(ui_cells[k])
            /\ ui_cells'[k].active = ui_cells[k].active
            /\ \A other \in UiKeys \ {k} : ui_cells'[other] = ui_cells[other]
            /\ ui_clipboard' = ui_clipboard
       /\ (ui_obs'.op = "edit" /\ ui_obs'.polled) =>
            /\ \A other \in UiKeys \ {ObsKey(ui_obs')} : ui_cells'[other] = ui_cells[other]
            /\ ui_clipboard' = ui_clipboard]_vars

\* C39's case: cell (0,1) was copied and pasted into (0,0) and (0,2), then (0,0)
\* was edited: (0,2) and the clipboard still hold what was copied, (0,0) keeps
\* its own id and bounds, and (0,1) keeps the active flag the copy did not take
Wit_C39 ==
    /\ ui_obs.op = "edit" /\ ui_obs.polled
    /\ ui_clipboard.cell_id = rc_key(0, 1)
    /\ ui_cells[rc_key(0, 0)].name = ui_clipboard.name
    /\ ui_cells[rc_key(0, 2)].name = ui_clipboard.name
    /\ ui_cells[rc_key(0, 0)].dmx.address = 512
    /\ ui_cells[rc_key(0, 2)].dmx = ui_clipboard.dmx
    /\ ui_clipboard.dmx.address = 1
    /\ ui_cells[rc_key(0, 0)].cell_id = rc_key(0, 0)
    /\ ~ui_cells[rc_key(0, 1)].active /\ ui_clipboard.active

\* a paste into the cell that is not active: it takes the name of the copy and
\* stays inactive, the copy being active
InactiveTargetKept ==
    /\ ui_obs.op = "paste" /\ ui_obs.polled /\ ObsKey(ui_obs) = rc_key(0, 1)
    /\ ui_clipboard.cell_id = rc_key(0, 0) /\ ui_clipboard.active
    /\ ui_cells[rc_key(0, 1)].name = ui_clipboard.name
    /\ ~ui_cells[rc_key(0, 1)].active

\* the edit of the cell that was the source of the copy
SourceEdited ==
    /\ ui_obs.op = "edit" /\ ui_obs.polled
    /\ ui_clipboard.cell_id = rc_key(0, 0)
    /\ ui_cells[rc_key(0, 0)].dmx.address = 512
    /\ ui_clipboard.dmx.address = 1

----------------------------------------------------------------------------
(* Claims on the end of a calibration count, under SpecCal *)

\* a step that is a tick of GridUI on which the countdown of phase 2 runs out
ComputingStep ==
    /\ cal_active /\ cal_phase = 2 /\ cal_countdown <= 1
    /\ ui_obs'.op = "tick" /\ ui_obs'.polled

\* no ground projection is retained, or it holds too few points for a position
NoPosition ==
    ui_last_ground = NoGround \/ detect_person_position(ui_last_ground) = NoPos

CountKeepsGround ==
    [][(cal_active /\ cal_phase = 2 /\ ui_obs'.op = "tick") =>
          ui_last_ground' = ui_last_ground]_vars

\* a count has ended and committed an offset computed from the cloud retained
\* before it, on a tick whose own frame held another cloud
StaleGroundUsed ==
    /\ ~cal_active /\ cal_phase = 2 /\ cal_countdown = 0
    /\ ui_saved.by = "calibration"
    /\ ui_obs.op = "tick" /\ ui_obs.frame # NoGround /\ ui_obs.frame.n >= 10
    /\ ui_obs.frame # ui_last_ground
    /\ ui_offset = CalibrationOffset(<<ui_last_ground.x, ui_last_ground.y>>, ui_room)

====
